---- MODULE Spec2Model ----
(***************************************************************************)
(* Model of the novella backend: the store (internal/store/store.go), its  *)
(* JSON snapshot (internal/store/persist.go), the entity types             *)
(* (internal/model/model.go) and the HTTP handlers that call the store and *)
(* translate its errors (internal/api/server.go).                          *)
(*                                                                         *)
(* Go strings whose content the code inspects (user names, e-mails,        *)
(* titles ...) are sequences of one-character strings, so that             *)
(* strings.ToLower and strings.TrimSpace are computed, not assumed.        *)
(* A nil pointer is the empty sequence, a pointer to v is <<v>>.            *)
(* A Go map is a function whose DOMAIN is the set of keys.                 *)
(***************************************************************************)
EXTENDS Integers, Sequences, FiniteSets, TLC

----------------------------------------------------------------------------
(* Bounds of the model. *)

MaxUsers == 2
MaxNovels == 1
MaxChapters == 2
MaxComments == 1
MaxBookmarks == 2

IdUsers == 2
IdClock == 1

CascadeUsers == 1
CascadeNovels == 2
CascadeChapters == 2
CascadeComments == 1
CascadeBookmarks == 2

FaultUsers == 2
FaultNovels == 1
FaultChapters == 2
FaultComments == 1
FaultBookmarks == 1

StoreUsers == 1
StoreNovels == 1
StoreChapters == 1
StoreComments == 2
StoreBookmarks == 2
OrderUsers == 1
OrderNovels == 2
OrderChapters == 2
OrderComments == 2
OrderPosition == 2
OrderLimit == 1
OrderClock == 1
RejectUsers == 2
RejectNovels == 1
RejectChapters == 1
RejectComments == 1
RejectBookmarks == 1
EditUsers == 1
EditNovels == 1
EditChapters == 1
EditBookmarks == 1
EditPosition == 2
EditClock == 1
ConcThreads == 2
ConcUsers == 1
ConcNovels == 1
ConcChapters == 2
ConcComments == 1
ConcBookmarks == 1

----------------------------------------------------------------------------
(* Maps *)

PutNothing(m, k, v) == m

Put(m, k, v) == [x \in (DOMAIN m) \cup {k} |-> IF x = k THEN v ELSE m[x]]

DelNothing(m, k) == m

Del(m, k) == [x \in (DOMAIN m) \ {k} |-> m[x]]

EmptyMap == [x \in {} |-> 0]

SeqToSet(q) == {q[i] : i \in 1..Len(q)}

----------------------------------------------------------------------------
(* Strings *)

Space == " "

LowerRune(c) ==
    CASE c = "A" -> "a"
      [] c = "B" -> "b"
      [] c = "X" -> "x"
      [] c = "Y" -> "y"
      [] c = "T" -> "t"
      [] OTHER -> c

ToLower(str) == [i \in 1..Len(str) |-> LowerRune(str[i])]

RECURSIVE TrimLeft(_)
TrimLeft(str) ==
    IF str # <<>> /\ Head(str) = Space THEN TrimLeft(Tail(str)) ELSE str

RECURSIVE TrimRight(_)
TrimRight(str) ==
    IF str # <<>> /\ str[Len(str)] = Space
    THEN TrimRight(SubSeq(str, 1, Len(str) - 1))
    ELSE str

TrimSpace(str) == TrimRight(TrimLeft(str))

normalizeNoLower(input) == TrimSpace(input)

normalize(input) == TrimSpace(ToLower(input))

(* sha256 over salt + ":" + password, hex encoded: modelled as the         *)
(* injective pairing of its two arguments (no collisions), never empty.    *)
hashPassword(salt, password) == <<"sha256">> \o salt \o <<":">> \o password

RECURSIVE DecStr(_)
DecStr(n) == IF n < 10 THEN <<n>> ELSE DecStr(n \div 10) \o <<n % 10>>

bookmarkKeyNovelOnly(userID, novelID) == DecStr(novelID)

bookmarkKey(userID, novelID) == DecStr(userID) \o <<":">> \o DecStr(novelID)

----------------------------------------------------------------------------
(* Errors of the store and HTTP statuses of the handlers *)

Nil == "nil"
ErrNotFound == "ErrNotFound"
ErrConflict == "ErrConflict"
ErrUnauthorized == "ErrUnauthorized"
ErrInvalid == "ErrInvalid"
ErrPersist == "ErrPersist"
ErrRand == "ErrRand"

StatusBadRequest == 400
StatusForbidden == 403
StatusNotFound == 404
StatusConflict == 409

handleStoreErr(err) ==
    CASE err = ErrNotFound -> StatusNotFound
      [] err = ErrUnauthorized -> StatusForbidden
      [] err = ErrConflict -> StatusConflict
      [] OTHER -> StatusBadRequest

NovelDraft == "draft"
NovelPublished == "published"

(* No Authorization header: the empty bearer token, never a session key. *)
NoToken == <<>>

----------------------------------------------------------------------------
(* State *)

VARIABLES
    dbPath,             \* Store.dbPath: <<>> is the in-memory mode
    running,            \* the process is up (NewWithDB returned a store)
    usersByID, usersByEmail, usersByUsername,
    novelsByID,
    chaptersByID, chapterIDsByNovel,
    commentsByID, commentIDsByNovel,
    bookmarks, sessions,
    nextUserID, nextNovelID, nextChapterID, nextCommentID,
    disk,               \* the snapshot file at dbPath
    clock,              \* time.Now()
    last,               \* the last call: operation, arguments, error, value
    mu,                 \* Store.mu: the goroutine holding it for writing, those holding it for reading
    pc,                 \* where each goroutine is in the method it runs
    local               \* each goroutine's call, its local variables and its results

tables == <<usersByID, usersByEmail, usersByUsername, novelsByID,
            chaptersByID, chapterIDsByNovel, commentsByID, commentIDsByNovel,
            bookmarks, sessions,
            nextUserID, nextNovelID, nextChapterID, nextCommentID>>

conc == <<mu, pc, local>>

vars == <<dbPath, running, tables, disk, clock, last, conc>>

userTables == <<usersByID, usersByEmail, usersByUsername>>
counters == <<nextUserID, nextNovelID, nextChapterID, nextCommentID>>
chapterTables == <<chaptersByID, chapterIDsByNovel>>
commentTables == <<commentsByID, commentIDsByNovel>>

(* The in-memory table set as one value. *)
State == [
    usersByID |-> usersByID, usersByEmail |-> usersByEmail,
    usersByUsername |-> usersByUsername, novelsByID |-> novelsByID,
    chaptersByID |-> chaptersByID, chapterIDsByNovel |-> chapterIDsByNovel,
    commentsByID |-> commentsByID, commentIDsByNovel |-> commentIDsByNovel,
    bookmarks |-> bookmarks, sessions |-> sessions,
    nextUserID |-> nextUserID, nextNovelID |-> nextNovelID,
    nextChapterID |-> nextChapterID, nextCommentID |-> nextCommentID ]

----------------------------------------------------------------------------
(* Snapshot persistence: encoding/json on persistentState *)

(* json.Marshal of model.User: PasswordSalt and PasswordHash carry the tag *)
(* json:"-" and are not written.                                           *)
MarshalUser(u) ==
    [id |-> u.ID, username |-> u.Username, email |-> u.Email,
     created_at |-> u.CreatedAt]

(* json.Unmarshal into model.User: fields absent from the document keep    *)
(* their zero value, the empty string.                                     *)
UnmarshalUser(j) ==
    [ID |-> j.id, Username |-> j.username, Email |-> j.email,
     PasswordSalt |-> <<>>, PasswordHash |-> <<>>,
     CreatedAt |-> j.created_at]

(* chapter_id and chapter_position carry omitempty: a nil pointer is left  *)
(* out and read back as nil; a set pointer is written as its value.        *)
MarshalBookmark(b) ==
    [user_id |-> b.UserID, novel_id |-> b.NovelID, updated_at |-> b.UpdatedAt,
     opt |-> (IF b.ChapterID # <<>> THEN {<<"chapter_id", b.ChapterID[1]>>} ELSE {})
        \cup (IF b.ChapterPos # <<>>
              THEN {<<"chapter_position", b.ChapterPos[1]>>} ELSE {})]

OptFieldAbsent(opt, name) == <<>>

OptField(opt, name) ==
    IF \E f \in opt : f[1] = name
    THEN <<(CHOOSE f \in opt : f[1] = name)[2]>>
    ELSE <<>>

UnmarshalBookmark(j) ==
    [UserID |-> j.user_id, NovelID |-> j.novel_id,
     ChapterID |-> OptField(j.opt, "chapter_id"),
     UpdatedAt |-> j.updated_at,
     ChapterPos |-> OptField(j.opt, "chapter_position")]

MarshalComment(c) ==
    [id |-> c.ID, novel_id |-> c.NovelID, user_id |-> c.UserID,
     body |-> c.Body, created_at |-> c.CreatedAt,
     opt |-> IF c.ChapterID # <<>> THEN {<<"chapter_id", c.ChapterID[1]>>} ELSE {}]

UnmarshalComment(j) ==
    [ID |-> j.id, NovelID |-> j.novel_id,
     ChapterID |-> OptField(j.opt, "chapter_id"),
     UserID |-> j.user_id, Body |-> j.body, CreatedAt |-> j.created_at]

(* persistentState as persistLocked fills and json.MarshalIndent writes it *)
Marshal(st) == [
    users_by_id |-> [k \in DOMAIN st.usersByID |-> MarshalUser(st.usersByID[k])],
    users_by_email |-> st.usersByEmail,
    users_by_username |-> st.usersByUsername,
    novels_by_id |-> st.novelsByID,
    chapters_by_id |-> st.chaptersByID,
    chapter_ids_by_novel |-> st.chapterIDsByNovel,
    comments_by_id |->
        [k \in DOMAIN st.commentsByID |-> MarshalComment(st.commentsByID[k])],
    comment_ids_by_novel |-> st.commentIDsByNovel,
    bookmarks |-> [k \in DOMAIN st.bookmarks |-> MarshalBookmark(st.bookmarks[k])],
    sessions |-> st.sessions,
    next_user_id |-> st.nextUserID,
    next_novel_id |-> st.nextNovelID,
    next_chapter_id |-> st.nextChapterID,
    next_comment_id |-> st.nextCommentID ]

(* json.Unmarshal into persistentState, as loadLocked copies it *)
Unmarshal(doc) == [
    usersByID |-> [k \in DOMAIN doc.users_by_id |-> UnmarshalUser(doc.users_by_id[k])],
    usersByEmail |-> doc.users_by_email,
    usersByUsername |-> doc.users_by_username,
    novelsByID |-> doc.novels_by_id,
    chaptersByID |-> doc.chapters_by_id,
    chapterIDsByNovel |-> doc.chapter_ids_by_novel,
    commentsByID |->
        [k \in DOMAIN doc.comments_by_id |-> UnmarshalComment(doc.comments_by_id[k])],
    commentIDsByNovel |-> doc.comment_ids_by_novel,
    bookmarks |-> [k \in DOMAIN doc.bookmarks |-> UnmarshalBookmark(doc.bookmarks[k])],
    sessions |-> doc.sessions,
    nextUserID |-> doc.next_user_id,
    nextNovelID |-> doc.next_novel_id,
    nextChapterID |-> doc.next_chapter_id,
    nextCommentID |-> doc.next_comment_id ]

(* The maps NewWithDB makes, all counters zero. *)
EmptyState == [
    usersByID |-> EmptyMap, usersByEmail |-> EmptyMap,
    usersByUsername |-> EmptyMap, novelsByID |-> EmptyMap,
    chaptersByID |-> EmptyMap, chapterIDsByNovel |-> EmptyMap,
    commentsByID |-> EmptyMap, commentIDsByNovel |-> EmptyMap,
    bookmarks |-> EmptyMap, sessions |-> EmptyMap,
    nextUserID |-> 0, nextNovelID |-> 0,
    nextChapterID |-> 0, nextCommentID |-> 0 ]

(* The file: absent, a complete document, or cut short by a failed write.  *)
NoFile == [kind |-> "absent", doc |-> Marshal(EmptyState)]
File(doc) == [kind |-> "document", doc |-> doc]
BrokenFile == [kind |-> "malformed", doc |-> Marshal(EmptyState)]

(* persistLocked: w is what os.WriteFile does: "ok" writes the document,   *)
(* "unwritten" fails before the file is touched, "truncated" fails after   *)
(* the file was truncated.  In the in-memory mode nothing is written.      *)
persistErrNever(w) == Nil

persistErr(w) == IF dbPath = <<>> \/ w = "ok" THEN Nil ELSE ErrPersist

persistLocked(w) ==
    disk' = IF dbPath = <<>> THEN disk
            ELSE CASE w = "ok" -> File(Marshal(State'))
                   [] w = "unwritten" -> disk
                   [] OTHER -> BrokenFile

SetTables(st) ==
    /\ usersByID' = st.usersByID
    /\ usersByEmail' = st.usersByEmail
    /\ usersByUsername' = st.usersByUsername
    /\ novelsByID' = st.novelsByID
    /\ chaptersByID' = st.chaptersByID
    /\ chapterIDsByNovel' = st.chapterIDsByNovel
    /\ commentsByID' = st.commentsByID
    /\ commentIDsByNovel' = st.commentIDsByNovel
    /\ bookmarks' = st.bookmarks
    /\ sessions' = st.sessions
    /\ nextUserID' = st.nextUserID
    /\ nextNovelID' = st.nextNovelID
    /\ nextChapterID' = st.nextChapterID
    /\ nextCommentID' = st.nextCommentID

loadLockedNothing(file) == EmptyState

(* What loadLocked leaves in the store for a readable file. *)
loadLocked(file) ==
    IF file.kind = "absent" THEN EmptyState ELSE Unmarshal(file.doc)

NoCall == [op |-> "none", args |-> <<>>, err |-> Nil, val |-> <<>>]

Threads == 1..ConcThreads

(* The zero value of sync.RWMutex: held by nobody. *)
Unlocked == [writer |-> 0, readers |-> {}]

(* A goroutine's frame: its call, the slice it ranges over (ids), the   *)
(* novel it copied out of the table (n), and what it returns.           *)
Frame(op, args) ==
    [op |-> op, args |-> args, err |-> Nil, val |-> <<>>, ids |-> <<>>, n |-> <<>>]

NoFrame == Frame("none", <<>>)

Call(op, args, err, val) == [op |-> op, args |-> args, err |-> err, val |-> val]

(* NewWithDB on a path with no file yet (or with no path). *)
Init ==
    /\ dbPath = <<"d", "b">>
    /\ running = TRUE
    /\ usersByID = EmptyMap /\ usersByEmail = EmptyMap
    /\ usersByUsername = EmptyMap /\ novelsByID = EmptyMap
    /\ chaptersByID = EmptyMap /\ chapterIDsByNovel = EmptyMap
    /\ commentsByID = EmptyMap /\ commentIDsByNovel = EmptyMap
    /\ bookmarks = EmptyMap /\ sessions = EmptyMap
    /\ nextUserID = 0 /\ nextNovelID = 0
    /\ nextChapterID = 0 /\ nextCommentID = 0
    /\ disk = NoFile
    /\ clock = 0
    /\ last = NoCall
    /\ mu = Unlocked
    /\ pc = [t \in Threads |-> "idle"]
    /\ local = [t \in Threads |-> NoFrame]

----------------------------------------------------------------------------
(* Identity: Register, Login, UserByToken *)

NoUser == [ID |-> 0, Username |-> <<>>, Email |-> <<>>, PasswordSalt |-> <<>>,
           PasswordHash |-> <<>>, CreatedAt |-> 0]

(* randomHex failing returns "" and an error. *)
RandFailed(hex) == hex = <<>>

usernameClaimed(u) == u \in DOMAIN usersByUsername

emailClaimed(e) == e \in DOMAIN usersByEmail

RegisterErr(username, email, password, salt, token, w) ==
    LET u == normalize(username)
        e == normalize(email)
    IN  IF u = <<>> \/ e = <<>> \/ password = <<>> THEN ErrInvalid
        ELSE IF usernameClaimed(u) THEN ErrConflict
        ELSE IF emailClaimed(e) THEN ErrConflict
        ELSE IF RandFailed(salt) THEN ErrRand
        ELSE IF RandFailed(token) THEN ErrRand
        ELSE persistErr(w)

Register(username, email, password, salt, token, w) ==
    LET u == normalize(username)
        e == normalize(email)
        err == RegisterErr(username, email, password, salt, token, w)
        user == [ID |-> nextUserID + 1,
                 Username |-> TrimSpace(username),
                 Email |-> TrimSpace(email),
                 PasswordSalt |-> salt,
                 PasswordHash |-> hashPassword(salt, password),
                 CreatedAt |-> clock]
        args == [username |-> username, email |-> email, password |-> password]
    IN  /\ running
        /\ IF err \in {ErrInvalid, ErrConflict}
           THEN /\ UNCHANGED <<tables, disk>>
                /\ last' = Call("Register", args, err, <<>>)
           ELSE IF RandFailed(salt)
           THEN \* the counter was already advanced
                /\ nextUserID' = nextUserID + 1
                /\ UNCHANGED <<userTables, novelsByID, chapterTables,
                               commentTables, bookmarks, sessions,
                               nextNovelID, nextChapterID, nextCommentID, disk>>
                /\ last' = Call("Register", args, err, <<>>)
           ELSE /\ nextUserID' = nextUserID + 1
                /\ usersByID' = Put(usersByID, user.ID, user)
                /\ usersByEmail' = Put(usersByEmail, e, user.ID)
                /\ usersByUsername' = Put(usersByUsername, u, user.ID)
                /\ UNCHANGED <<novelsByID, chapterTables, commentTables,
                               bookmarks, nextNovelID, nextChapterID,
                               nextCommentID>>
                /\ IF RandFailed(token)
                   THEN \* the user is stored, no session, nothing written
                        /\ UNCHANGED <<sessions, disk>>
                        /\ last' = Call("Register", args, err, <<>>)
                   ELSE /\ sessions' = Put(sessions, token, user.ID)
                        /\ persistLocked(w)
                        /\ last' = Call("Register", args, err,
                                IF err = Nil
                                THEN [user |-> user, token |-> token]
                                ELSE <<>>)
        /\ UNCHANGED <<dbPath, running, clock>>

LoginErr(email, password, token, w) ==
    LET e == normalize(email) IN
    IF e \notin DOMAIN usersByEmail THEN ErrUnauthorized
    ELSE LET user == usersByID[usersByEmail[e]] IN
         IF user.PasswordHash # hashPassword(user.PasswordSalt, password)
         THEN ErrUnauthorized
         ELSE IF RandFailed(token) THEN ErrRand
         ELSE persistErr(w)

Login(email, password, token, w) ==
    LET err == LoginErr(email, password, token, w)
        args == [email |-> email, password |-> password]
    IN  /\ running
        /\ IF err \in {ErrUnauthorized, ErrRand}
           THEN /\ UNCHANGED <<tables, disk>>
                /\ last' = Call("Login", args, err, <<>>)
           ELSE LET user == usersByID[usersByEmail[normalize(email)]] IN
                /\ sessions' = Put(sessions, token, user.ID)
                /\ UNCHANGED <<userTables, novelsByID, chapterTables,
                               commentTables, bookmarks, counters>>
                /\ persistLocked(w)
                /\ last' = Call("Login", args, err,
                        IF err = Nil
                        THEN [user |-> user, token |-> token]
                        ELSE <<>>)
        /\ UNCHANGED <<dbPath, running, clock>>

(* UserByToken: the error and the user it returns. *)
UserByToken(token) ==
    IF token \notin DOMAIN sessions
    THEN [err |-> ErrUnauthorized, user |-> NoUser]
    ELSE IF sessions[token] \notin DOMAIN usersByID
    THEN [err |-> ErrUnauthorized, user |-> NoUser]
    ELSE [err |-> Nil, user |-> usersByID[sessions[token]]]

(* The requester id the handlers of the optional-auth routes compute:     *)
(* zero unless the bearer token resolves.                                  *)
optionalAuth(token) ==
    IF UserByToken(token).err = Nil THEN UserByToken(token).user.ID ELSE 0

(* requireAuth answers 401 itself and does not call the handler. *)
requireAuthRejects(token) == UserByToken(token).err # Nil

Rejected(token) ==
    /\ running
    /\ requireAuthRejects(token)
    /\ last' = Call("requireAuth", [token |-> token], ErrUnauthorized, <<>>)
    /\ UNCHANGED <<dbPath, running, tables, disk, clock>>

(* GET /me *)
Me(token) ==
    /\ running
    /\ ~requireAuthRejects(token)
    /\ last' = Call("UserByToken", [token |-> token], Nil, UserByToken(token).user)
    /\ UNCHANGED <<dbPath, running, tables, disk, clock>>

----------------------------------------------------------------------------
(* Process restart: main calls NewWithDB(dbPath) again *)

Restart ==
    /\ IF dbPath = <<>>
       THEN SetTables(EmptyState) /\ running' = TRUE
       ELSE IF disk.kind = "malformed"
       THEN \* json.Unmarshal fails, NewWithDB returns the error, main exits
            SetTables(EmptyState) /\ running' = FALSE
       ELSE SetTables(loadLocked(disk)) /\ running' = TRUE
    /\ last' = Call("Restart", <<>>, Nil, <<>>)
    /\ UNCHANGED <<dbPath, disk, clock>>

Tick ==
    /\ clock' = clock + 1
    /\ UNCHANGED <<dbPath, running, tables, disk, last>>

----------------------------------------------------------------------------
(* Novels *)

Get(m, k) == IF k \in DOMAIN m THEN m[k] ELSE <<>>

NoNovel == [ID |-> 0, AuthorID |-> 0, Title |-> <<>>, Description |-> <<>>,
            Genre |-> <<>>, Status |-> "", CreatedAt |-> 0, UpdatedAt |-> 0]

(* The draft-visibility test NovelByID, ListChapters, ListComments,       *)
(* CreateComment and UpsertBookmark all make on the novel they address.   *)
hiddenNever(n, requesterID) == FALSE

hiddenFrom(n, requesterID) ==
    n.Status # NovelPublished /\ n.AuthorID # requesterID

(* The ownership test of the mutating operations. *)
notOwnerNever(n, requesterID) == FALSE

notOwner(n, requesterID) == n.AuthorID # requesterID

CreateNovelErr(authorID, title, description, genre, status, w) ==
    LET st == IF status = "" THEN NovelDraft ELSE status IN
    IF st # NovelDraft /\ st # NovelPublished THEN ErrInvalid
    ELSE IF TrimSpace(title) = <<>> THEN ErrInvalid
    ELSE persistErr(w)

CreateNovel(authorID, title, description, genre, status, w) ==
    LET err == CreateNovelErr(authorID, title, description, genre, status, w)
        n == [ID |-> nextNovelID + 1,
              AuthorID |-> authorID,
              Title |-> TrimSpace(title),
              Description |-> TrimSpace(description),
              Genre |-> TrimSpace(genre),
              Status |-> IF status = "" THEN NovelDraft ELSE status,
              CreatedAt |-> clock,
              UpdatedAt |-> clock]
        args == [authorID |-> authorID, title |-> title,
                 description |-> description, genre |-> genre, status |-> status]
    IN  /\ running
        /\ IF err = ErrInvalid
           THEN /\ UNCHANGED <<tables, disk>>
                /\ last' = Call("CreateNovel", args, err, NoNovel)
           ELSE /\ nextNovelID' = nextNovelID + 1
                /\ novelsByID' = Put(novelsByID, n.ID, n)
                /\ UNCHANGED <<userTables, chapterTables, commentTables,
                               bookmarks, sessions, nextUserID, nextChapterID,
                               nextCommentID>>
                /\ persistLocked(w)
                /\ last' = Call("CreateNovel", args, err,
                                IF err = Nil THEN n ELSE NoNovel)
        /\ UNCHANGED <<dbPath, running, clock>>

RECURSIVE HasPrefix(_, _)
HasPrefix(str, prefix) ==
    \/ prefix = <<>>
    \/ /\ str # <<>>
       /\ Head(str) = Head(prefix)
       /\ HasPrefix(Tail(str), Tail(prefix))

RECURSIVE Contains(_, _)
Contains(str, substr) ==
    \/ HasPrefix(str, substr)
    \/ str # <<>> /\ Contains(Tail(str), substr)

(* The novels ListNovels keeps while it ranges over novelsByID. *)
listNovelsKeeps(n, authorID, includeDrafts, requesterID) ==
    /\ ~(authorID > 0 /\ n.AuthorID # authorID)
    /\ ~(~includeDrafts /\ n.Status # NovelPublished /\ n.AuthorID # requesterID)

listNovelsMatches(n, q) ==
    q = <<>> \/
    Contains(normalize(n.Title \o <<Space>> \o n.Description \o <<Space>> \o n.Genre), q)

ListNovelsKept(query, authorID, includeDrafts, requesterID) ==
    {id \in DOMAIN novelsByID :
        /\ listNovelsKeeps(novelsByID[id], authorID, includeDrafts, requesterID)
        /\ listNovelsMatches(novelsByID[id], normalize(query))}

(* All orders of the set S as sequences. *)
Orders(S) ==
    {q \in [1..Cardinality(S) -> S] : \A i, j \in 1..Cardinality(S) : i # j => q[i] # q[j]}

(* sort.Slice with less(i, j) = result[i].UpdatedAt.After(result[j].UpdatedAt)  *)
(* on a slice filled in map order: any order with no element before one   *)
(* that is strictly newer.                                                 *)
NewestFirst(q) ==
    \A i, j \in 1..Len(q) : i < j => ~(q[j].UpdatedAt > q[i].UpdatedAt)

(* ListNovels as it would be without the offset. *)
ListNovelsNoOffset(query, authorID, includeDrafts, requesterID, limit, offset) ==
    LET kept == ListNovelsKept(query, authorID, includeDrafts, requesterID)
        args == [query |-> query, authorID |-> authorID,
                 includeDrafts |-> includeDrafts, requesterID |-> requesterID,
                 limit |-> limit, offset |-> offset]
    IN  /\ running
        /\ \E order \in Orders(kept) :
             LET result == [i \in 1..Len(order) |-> novelsByID[order[i]]] IN
             /\ NewestFirst(result)
             /\ last' =
                  IF limit > 0 /\ limit < Len(result)
                  THEN Call("ListNovels", args, Nil, SubSeq(result, 1, limit))
                  ELSE Call("ListNovels", args, Nil, result)
        /\ UNCHANGED <<dbPath, running, tables, disk, clock>>

(* ListNovels: order is one of the orders the sort may leave; a negative   *)
(* offset makes result[offset:] panic.                                     *)
ListNovels(query, authorID, includeDrafts, requesterID, limit, offset) ==
    LET kept == ListNovelsKept(query, authorID, includeDrafts, requesterID)
        args == [query |-> query, authorID |-> authorID,
                 includeDrafts |-> includeDrafts, requesterID |-> requesterID,
                 limit |-> limit, offset |-> offset]
    IN  /\ running
        /\ \E order \in Orders(kept) :
             LET result == [i \in 1..Len(order) |-> novelsByID[order[i]]] IN
             /\ NewestFirst(result)
             /\ last' =
                  IF offset > Len(result) THEN Call("ListNovels", args, Nil, <<>>)
                  ELSE IF offset < 0 THEN Call("ListNovels", args, "panic", <<>>)
                  ELSE LET rest == SubSeq(result, offset + 1, Len(result)) IN
                       IF limit > 0 /\ limit < Len(rest)
                       THEN Call("ListNovels", args, Nil, SubSeq(rest, 1, limit))
                       ELSE Call("ListNovels", args, Nil, rest)
        /\ UNCHANGED <<dbPath, running, tables, disk, clock>>

NovelByIDErr(id, requesterID) ==
    IF id \notin DOMAIN novelsByID THEN ErrNotFound
    ELSE IF hiddenFrom(novelsByID[id], requesterID) THEN ErrUnauthorized
    ELSE Nil

NovelByID(id, requesterID) ==
    LET err == NovelByIDErr(id, requesterID) IN
    /\ running
    /\ last' = Call("NovelByID", [id |-> id, requesterID |-> requesterID], err,
                    IF err = Nil THEN novelsByID[id] ELSE NoNovel)
    /\ UNCHANGED <<dbPath, running, tables, disk, clock>>

(* status is the optional *NovelStatus: <<>> is nil. *)
UpdateNovelErr(id, requesterID, title, description, genre, status, w) ==
    IF id \notin DOMAIN novelsByID THEN ErrNotFound
    ELSE IF notOwner(novelsByID[id], requesterID) THEN ErrUnauthorized
    ELSE IF status # <<>> /\ status[1] # NovelDraft /\ status[1] # NovelPublished
    THEN ErrInvalid
    ELSE persistErr(w)

(* UpdateNovel writing the edited copy back to the table before the       *)
(* status is tested.                                                      *)
UpdateNovelStoresEarly(id, requesterID, title, description, genre, status, w) ==
    LET err == UpdateNovelErr(id, requesterID, title, description, genre, status, w)
        args == [id |-> id, requesterID |-> requesterID, title |-> title,
                 description |-> description, genre |-> genre, status |-> status]
    IN  /\ running
        /\ IF err \in {ErrNotFound, ErrUnauthorized}
           THEN /\ UNCHANGED <<tables, disk>>
                /\ last' = Call("UpdateNovel", args, err, NoNovel)
           ELSE LET old == novelsByID[id]
                    n == [old EXCEPT
                            !.Title = IF TrimSpace(title) # <<>>
                                      THEN TrimSpace(title) ELSE @,
                            !.Description = IF description # <<>>
                                            THEN TrimSpace(description) ELSE @,
                            !.Genre = IF genre # <<>> THEN TrimSpace(genre) ELSE @,
                            !.Status = IF status # <<>> /\ err # ErrInvalid
                                       THEN status[1] ELSE @,
                            !.UpdatedAt = clock]
                IN  /\ novelsByID' = Put(novelsByID, id, n)
                    /\ UNCHANGED <<userTables, chapterTables, commentTables,
                                   bookmarks, sessions, counters>>
                    /\ IF err = ErrInvalid
                       THEN UNCHANGED disk
                       ELSE persistLocked(w)
                    /\ last' = Call("UpdateNovel", args, err,
                                    IF err = Nil THEN n ELSE NoNovel)
        /\ UNCHANGED <<dbPath, running, clock>>

UpdateNovel(id, requesterID, title, description, genre, status, w) ==
    LET err == UpdateNovelErr(id, requesterID, title, description, genre, status, w)
        args == [id |-> id, requesterID |-> requesterID, title |-> title,
                 description |-> description, genre |-> genre, status |-> status]
    IN  /\ running
        /\ IF err \in {ErrNotFound, ErrUnauthorized, ErrInvalid}
           THEN /\ UNCHANGED <<tables, disk>>
                /\ last' = Call("UpdateNovel", args, err, NoNovel)
           ELSE LET old == novelsByID[id]
                    n == [old EXCEPT
                            !.Title = IF TrimSpace(title) # <<>>
                                      THEN TrimSpace(title) ELSE @,
                            !.Description = IF description # <<>>
                                            THEN TrimSpace(description) ELSE @,
                            !.Genre = IF genre # <<>> THEN TrimSpace(genre) ELSE @,
                            !.Status = IF status # <<>> THEN status[1] ELSE @,
                            !.UpdatedAt = clock]
                IN  /\ novelsByID' = Put(novelsByID, id, n)
                    /\ UNCHANGED <<userTables, chapterTables, commentTables,
                                   bookmarks, sessions, counters>>
                    /\ persistLocked(w)
                    /\ last' = Call("UpdateNovel", args, err,
                                    IF err = Nil THEN n ELSE NoNovel)
        /\ UNCHANGED <<dbPath, running, clock>>

DeleteNovelErr(id, requesterID, w) ==
    IF id \notin DOMAIN novelsByID THEN ErrNotFound
    ELSE IF notOwner(novelsByID[id], requesterID) THEN ErrUnauthorized
    ELSE persistErr(w)

Without(m, keys) == [x \in (DOMAIN m) \ keys |-> m[x]]

(* The bookmarks DeleteNovel deletes. *)
deleteNovelDropsNoBookmark(b, id) == FALSE

deleteNovelDropsEveryBookmark(b, id) == TRUE

deleteNovelDropsBookmark(b, id) == b.NovelID = id

DeleteNovel(id, requesterID, w) ==
    LET err == DeleteNovelErr(id, requesterID, w)
        args == [id |-> id, requesterID |-> requesterID]
    IN  /\ running
        /\ IF err \in {ErrNotFound, ErrUnauthorized}
           THEN UNCHANGED <<tables, disk>>
           ELSE /\ novelsByID' = Del(novelsByID, id)
                /\ chaptersByID' =
                     Without(chaptersByID, SeqToSet(Get(chapterIDsByNovel, id)))
                /\ chapterIDsByNovel' = Del(chapterIDsByNovel, id)
                /\ commentsByID' =
                     Without(commentsByID, SeqToSet(Get(commentIDsByNovel, id)))
                /\ commentIDsByNovel' = Del(commentIDsByNovel, id)
                /\ bookmarks' =
                     Without(bookmarks,
                             {k \in DOMAIN bookmarks :
                                 deleteNovelDropsBookmark(bookmarks[k], id)})
                /\ UNCHANGED <<userTables, sessions, counters>>
                /\ persistLocked(w)
        /\ last' = Call("DeleteNovel", args, err, <<>>)
        /\ UNCHANGED <<dbPath, running, clock>>

----------------------------------------------------------------------------
(* Chapters *)

NoChapter == [ID |-> 0, NovelID |-> 0, Title |-> <<>>, Content |-> <<>>,
              Position |-> 0, CreatedAt |-> 0, UpdatedAt |-> 0]

CreateChapterErr(novelID, requesterID, title, content, position, w) ==
    IF novelID \notin DOMAIN novelsByID THEN ErrNotFound
    ELSE IF notOwner(novelsByID[novelID], requesterID) THEN ErrUnauthorized
    ELSE IF TrimSpace(title) = <<>> THEN ErrInvalid
    ELSE persistErr(w)

CreateChapter(novelID, requesterID, title, content, position, w) ==
    LET err == CreateChapterErr(novelID, requesterID, title, content, position, w)
        ch == [ID |-> nextChapterID + 1,
               NovelID |-> novelID,
               Title |-> TrimSpace(title),
               Content |-> content,
               Position |-> IF position <= 0
                            THEN Len(Get(chapterIDsByNovel, novelID)) + 1
                            ELSE position,
               CreatedAt |-> clock,
               UpdatedAt |-> clock]
        args == [novelID |-> novelID, requesterID |-> requesterID,
                 title |-> title, content |-> content, position |-> position]
    IN  /\ running
        /\ IF err \in {ErrNotFound, ErrUnauthorized, ErrInvalid}
           THEN /\ UNCHANGED <<tables, disk>>
                /\ last' = Call("CreateChapter", args, err, NoChapter)
           ELSE /\ nextChapterID' = nextChapterID + 1
                /\ chaptersByID' = Put(chaptersByID, ch.ID, ch)
                /\ chapterIDsByNovel' =
                     Put(chapterIDsByNovel, novelID,
                         Append(Get(chapterIDsByNovel, novelID), ch.ID))
                /\ novelsByID' =
                     Put(novelsByID, novelID,
                         [novelsByID[novelID] EXCEPT !.UpdatedAt = clock])
                /\ UNCHANGED <<userTables, commentTables, bookmarks, sessions,
                               nextUserID, nextNovelID, nextCommentID>>
                /\ persistLocked(w)
                /\ last' = Call("CreateChapter", args, err,
                                IF err = Nil THEN ch ELSE NoChapter)
        /\ UNCHANGED <<dbPath, running, clock>>

ListChaptersErr(novelID, requesterID) ==
    IF novelID \notin DOMAIN novelsByID THEN ErrNotFound
    ELSE IF hiddenFrom(novelsByID[novelID], requesterID) THEN ErrUnauthorized
    ELSE Nil

(* The orders sort.Slice may leave for less(i, j) = Position[i] < Position[j]: *)
(* sort.Slice is not a stable sort, elements of equal position may come   *)
(* out in either order.                                                   *)
ByPositionUnsorted(q) == TRUE

ByPosition(q) ==
    \A i, j \in 1..Len(q) : i < j => ~(q[j].Position < q[i].Position)

ListChaptersResults(novelID) ==
    LET ids == Get(chapterIDsByNovel, novelID) IN
    {q \in {[i \in 1..Len(o) |-> chaptersByID[o[i]]] : o \in Orders(SeqToSet(ids))} :
        ByPosition(q)}

ListChapters(novelID, requesterID) ==
    LET err == ListChaptersErr(novelID, requesterID)
        args == [novelID |-> novelID, requesterID |-> requesterID]
    IN  /\ running
        /\ IF err # Nil
           THEN last' = Call("ListChapters", args, err, <<>>)
           ELSE \E res \in ListChaptersResults(novelID) :
                   last' = Call("ListChapters", args, Nil, res)
        /\ UNCHANGED <<dbPath, running, tables, disk, clock>>

(* ChapterByID calls ListChapters and looks for the id in its result. *)
ChapterByIDErr(novelID, chapterID, requesterID) ==
    IF ListChaptersErr(novelID, requesterID) # Nil
    THEN ListChaptersErr(novelID, requesterID)
    ELSE IF \A res \in ListChaptersResults(novelID) :
                \A i \in 1..Len(res) : res[i].ID # chapterID
    THEN ErrNotFound
    ELSE Nil

ChapterByID(novelID, chapterID, requesterID) ==
    LET err == ChapterByIDErr(novelID, chapterID, requesterID)
        args == [novelID |-> novelID, chapterID |-> chapterID,
                 requesterID |-> requesterID]
    IN  /\ running
        /\ last' = Call("ChapterByID", args, err,
                        IF err = Nil THEN chaptersByID[chapterID] ELSE NoChapter)
        /\ UNCHANGED <<dbPath, running, tables, disk, clock>>

chapterMissing(novelID, chapterID) ==
    chapterID \notin DOMAIN chaptersByID \/ chaptersByID[chapterID].NovelID # novelID

UpdateChapterErr(novelID, chapterID, requesterID, title, content, position, w) ==
    IF novelID \notin DOMAIN novelsByID THEN ErrNotFound
    ELSE IF notOwner(novelsByID[novelID], requesterID) THEN ErrUnauthorized
    ELSE IF chapterMissing(novelID, chapterID) THEN ErrNotFound
    ELSE persistErr(w)

(* UpdateChapter as it would be if bookmarks followed their chapter. *)
UpdateChapterLive(novelID, chapterID, requesterID, title, content, position, w) ==
    LET err == UpdateChapterErr(novelID, chapterID, requesterID, title, content,
                                position, w)
        args == [novelID |-> novelID, chapterID |-> chapterID,
                 requesterID |-> requesterID, title |-> title,
                 content |-> content, position |-> position]
    IN  /\ running
        /\ IF err \in {ErrNotFound, ErrUnauthorized}
           THEN /\ UNCHANGED <<tables, disk>>
                /\ last' = Call("UpdateChapter", args, err, NoChapter)
           ELSE LET ch == [chaptersByID[chapterID] EXCEPT
                             !.Title = IF TrimSpace(title) # <<>>
                                       THEN TrimSpace(title) ELSE @,
                             !.Content = IF content # <<>> THEN content ELSE @,
                             !.Position = IF position > 0 THEN position ELSE @,
                             !.UpdatedAt = clock]
                IN  /\ chaptersByID' = Put(chaptersByID, chapterID, ch)
                    /\ novelsByID' =
                         Put(novelsByID, novelID,
                             [novelsByID[novelID] EXCEPT !.UpdatedAt = clock])
                    /\ bookmarks' =
                         [k \in DOMAIN bookmarks |->
                            IF bookmarks[k].ChapterID = <<chapterID>>
                            THEN [bookmarks[k] EXCEPT !.ChapterPos = <<ch.Position>>]
                            ELSE bookmarks[k]]
                    /\ UNCHANGED <<userTables, chapterIDsByNovel, commentTables,
                                   sessions, counters>>
                    /\ persistLocked(w)
                    /\ last' = Call("UpdateChapter", args, err,
                                    IF err = Nil THEN ch ELSE NoChapter)
        /\ UNCHANGED <<dbPath, running, clock>>

UpdateChapter(novelID, chapterID, requesterID, title, content, position, w) ==
    LET err == UpdateChapterErr(novelID, chapterID, requesterID, title, content,
                                position, w)
        args == [novelID |-> novelID, chapterID |-> chapterID,
                 requesterID |-> requesterID, title |-> title,
                 content |-> content, position |-> position]
    IN  /\ running
        /\ IF err \in {ErrNotFound, ErrUnauthorized}
           THEN /\ UNCHANGED <<tables, disk>>
                /\ last' = Call("UpdateChapter", args, err, NoChapter)
           ELSE LET ch == [chaptersByID[chapterID] EXCEPT
                             !.Title = IF TrimSpace(title) # <<>>
                                       THEN TrimSpace(title) ELSE @,
                             !.Content = IF content # <<>> THEN content ELSE @,
                             !.Position = IF position > 0 THEN position ELSE @,
                             !.UpdatedAt = clock]
                IN  /\ chaptersByID' = Put(chaptersByID, chapterID, ch)
                    /\ novelsByID' =
                         Put(novelsByID, novelID,
                             [novelsByID[novelID] EXCEPT !.UpdatedAt = clock])
                    /\ UNCHANGED <<userTables, chapterIDsByNovel, commentTables,
                                   bookmarks, sessions, counters>>
                    /\ persistLocked(w)
                    /\ last' = Call("UpdateChapter", args, err,
                                    IF err = Nil THEN ch ELSE NoChapter)
        /\ UNCHANGED <<dbPath, running, clock>>

DeleteChapterErr(novelID, chapterID, requesterID, w) ==
    IF novelID \notin DOMAIN novelsByID THEN ErrNotFound
    ELSE IF notOwner(novelsByID[novelID], requesterID) THEN ErrUnauthorized
    ELSE IF chapterMissing(novelID, chapterID) THEN ErrNotFound
    ELSE persistErr(w)

(* ids with its first occurrence of id cut out; ids itself if there is none *)
RECURSIVE RemoveFirst(_, _)
RemoveFirst(ids, id) ==
    IF ids = <<>> THEN <<>>
    ELSE IF Head(ids) = id THEN Tail(ids)
    ELSE <<Head(ids)>> \o RemoveFirst(Tail(ids), id)

(* What DeleteChapter makes of a bookmark of the store. *)
deleteChapterKeepsPosition(b, novelID, chapterID) ==
    IF b.NovelID = novelID /\ b.ChapterID # <<>> /\ b.ChapterID[1] = chapterID
    THEN <<[b EXCEPT !.ChapterID = <<>>]>>
    ELSE <<b>>

deleteChapterBookmark(b, novelID, chapterID) ==
    IF b.NovelID = novelID /\ b.ChapterID # <<>> /\ b.ChapterID[1] = chapterID
    THEN <<[b EXCEPT !.ChapterID = <<>>, !.ChapterPos = <<>>]>>
    ELSE <<b>>

DeleteChapter(novelID, chapterID, requesterID, w) ==
    LET err == DeleteChapterErr(novelID, chapterID, requesterID, w)
        args == [novelID |-> novelID, chapterID |-> chapterID,
                 requesterID |-> requesterID]
    IN  /\ running
        /\ IF err \in {ErrNotFound, ErrUnauthorized}
           THEN UNCHANGED <<tables, disk>>
           ELSE /\ chaptersByID' = Del(chaptersByID, chapterID)
                /\ chapterIDsByNovel' =
                     IF novelID \in DOMAIN chapterIDsByNovel
                        /\ chapterID \in SeqToSet(chapterIDsByNovel[novelID])
                     THEN Put(chapterIDsByNovel, novelID,
                              RemoveFirst(chapterIDsByNovel[novelID], chapterID))
                     ELSE chapterIDsByNovel
                /\ bookmarks' =
                     [k \in {x \in DOMAIN bookmarks :
                               deleteChapterBookmark(bookmarks[x], novelID,
                                                     chapterID) # <<>>} |->
                        deleteChapterBookmark(bookmarks[k], novelID, chapterID)[1]]
                /\ UNCHANGED <<userTables, novelsByID, commentTables, sessions,
                               counters>>
                /\ persistLocked(w)
        /\ last' = Call("DeleteChapter", args, err, <<>>)
        /\ UNCHANGED <<dbPath, running, clock>>

----------------------------------------------------------------------------
(* Comments *)

NoComment == [ID |-> 0, NovelID |-> 0, ChapterID |-> <<>>, UserID |-> 0,
              Body |-> <<>>, CreatedAt |-> 0]

CreateCommentErrNoChapterTest(novelID, chapterID, userID, body, w) ==
    IF TrimSpace(body) = <<>> THEN ErrInvalid
    ELSE IF novelID \notin DOMAIN novelsByID THEN ErrNotFound
    ELSE IF hiddenFrom(novelsByID[novelID], userID) THEN ErrUnauthorized
    ELSE persistErr(w)

(* chapterID is the optional *int64: <<>> is nil. *)
CreateCommentErr(novelID, chapterID, userID, body, w) ==
    IF TrimSpace(body) = <<>> THEN ErrInvalid
    ELSE IF novelID \notin DOMAIN novelsByID THEN ErrNotFound
    ELSE IF hiddenFrom(novelsByID[novelID], userID) THEN ErrUnauthorized
    ELSE IF chapterID # <<>> /\ chapterMissing(novelID, chapterID[1]) THEN ErrNotFound
    ELSE persistErr(w)

CreateComment(novelID, chapterID, userID, body, w) ==
    LET err == CreateCommentErr(novelID, chapterID, userID, body, w)
        cm == [ID |-> nextCommentID + 1,
               NovelID |-> novelID,
               ChapterID |-> chapterID,
               UserID |-> userID,
               Body |-> TrimSpace(body),
               CreatedAt |-> clock]
        args == [novelID |-> novelID, chapterID |-> chapterID,
                 userID |-> userID, body |-> body]
    IN  /\ running
        /\ IF err \in {ErrInvalid, ErrNotFound, ErrUnauthorized}
           THEN /\ UNCHANGED <<tables, disk>>
                /\ last' = Call("CreateComment", args, err, NoComment)
           ELSE /\ nextCommentID' = nextCommentID + 1
                /\ commentsByID' = Put(commentsByID, cm.ID, cm)
                /\ commentIDsByNovel' =
                     Put(commentIDsByNovel, novelID,
                         Append(Get(commentIDsByNovel, novelID), cm.ID))
                /\ UNCHANGED <<userTables, novelsByID, chapterTables, bookmarks,
                               sessions, nextUserID, nextNovelID, nextChapterID>>
                /\ persistLocked(w)
                /\ last' = Call("CreateComment", args, err,
                                IF err = Nil THEN cm ELSE NoComment)
        /\ UNCHANGED <<dbPath, running, clock>>

ListCommentsErr(novelID, requesterID, chapterID) ==
    IF novelID \notin DOMAIN novelsByID THEN ErrNotFound
    ELSE IF hiddenFrom(novelsByID[novelID], requesterID) THEN ErrUnauthorized
    ELSE Nil

OldestFirst(q) ==
    \A i, j \in 1..Len(q) : i < j => ~(q[j].CreatedAt < q[i].CreatedAt)

ListCommentsKept(novelID, chapterID) ==
    {id \in SeqToSet(Get(commentIDsByNovel, novelID)) :
        chapterID = <<>> \/
        (commentsByID[id].ChapterID # <<>> /\
         commentsByID[id].ChapterID[1] = chapterID[1])}

ListCommentsResults(novelID, chapterID) ==
    {q \in {[i \in 1..Len(o) |-> commentsByID[o[i]]] :
                o \in Orders(ListCommentsKept(novelID, chapterID))} :
        OldestFirst(q)}

ListComments(novelID, requesterID, chapterID) ==
    LET err == ListCommentsErr(novelID, requesterID, chapterID)
        args == [novelID |-> novelID, requesterID |-> requesterID,
                 chapterID |-> chapterID]
    IN  /\ running
        /\ IF err # Nil
           THEN last' = Call("ListComments", args, err, <<>>)
           ELSE \E res \in ListCommentsResults(novelID, chapterID) :
                   last' = Call("ListComments", args, Nil, res)
        /\ UNCHANGED <<dbPath, running, tables, disk, clock>>

----------------------------------------------------------------------------
(* Bookmarks *)

NoBookmark == [UserID |-> 0, NovelID |-> 0, ChapterID |-> <<>>, UpdatedAt |-> 0,
               ChapterPos |-> <<>>]

UpsertBookmarkErr(userID, novelID, chapterID, w) ==
    IF novelID \notin DOMAIN novelsByID THEN ErrNotFound
    ELSE IF hiddenFrom(novelsByID[novelID], userID) THEN ErrUnauthorized
    ELSE IF chapterID # <<>> /\ chapterMissing(novelID, chapterID[1]) THEN ErrNotFound
    ELSE persistErr(w)

UpsertBookmark(userID, novelID, chapterID, w) ==
    LET err == UpsertBookmarkErr(userID, novelID, chapterID, w)
        b == [UserID |-> userID,
              NovelID |-> novelID,
              ChapterID |-> chapterID,
              UpdatedAt |-> clock,
              ChapterPos |-> IF chapterID # <<>>
                             THEN <<chaptersByID[chapterID[1]].Position>>
                             ELSE <<>>]
        args == [userID |-> userID, novelID |-> novelID, chapterID |-> chapterID]
    IN  /\ running
        /\ IF err \in {ErrNotFound, ErrUnauthorized}
           THEN /\ UNCHANGED <<tables, disk>>
                /\ last' = Call("UpsertBookmark", args, err, NoBookmark)
           ELSE /\ bookmarks' = Put(bookmarks, bookmarkKey(userID, novelID), b)
                /\ UNCHANGED <<userTables, novelsByID, chapterTables,
                               commentTables, sessions, counters>>
                /\ persistLocked(w)
                /\ last' = Call("UpsertBookmark", args, err,
                                IF err = Nil THEN b ELSE NoBookmark)
        /\ UNCHANGED <<dbPath, running, clock>>

NewestBookmarkFirst(q) ==
    \A i, j \in 1..Len(q) : i < j => ~(q[j].UpdatedAt > q[i].UpdatedAt)

MyBookmarksResults(userID) ==
    {q \in {[i \in 1..Len(o) |-> bookmarks[o[i]]] :
                o \in Orders({k \in DOMAIN bookmarks : bookmarks[k].UserID = userID})} :
        NewestBookmarkFirst(q)}

MyBookmarks(userID) ==
    /\ running
    /\ \E res \in MyBookmarksResults(userID) :
          last' = Call("MyBookmarks", [userID |-> userID], Nil, res)
    /\ UNCHANGED <<dbPath, running, tables, disk, clock>>

----------------------------------------------------------------------------------------------------------------------------------------------------------------------------------------------------
(* The requests the model sends *)

Form(username, email, password) ==
    [username |-> username, email |-> email, password |-> password]
Alice == Form(<<"a">>, <<"x">>, <<"p">>)
Bob == Form(<<"b">>, <<"y">>, <<"p">>)
Blank == Form(<<Space>>, <<"y">>, <<"p">>)
Salts == {<<"5", "a">>}
Tokens == {<<"t", "1">>, <<"t", "2">>}
TokenOf(f) == IF f.username = <<"b">> THEN <<"t", "2">> ELSE <<"t", "1">>
Titles == {<<Space>>, <<"t">>}
CreateStatuses == {"", NovelPublished, "archived"}
UpdateStatuses == {<<>>, <<NovelDraft>>, <<NovelPublished>>, <<"archived">>}
ChapterTitles == {<<"c">>, <<>>}
Bodies == {<<"k">>, <<Space>>}
Opt(S) == {<<>>} \cup {<<c>> : c \in S}

(* requireAuth passes the user its bearer token resolves to. *)
requireAuthIDs ==
    {UserByToken(t).user.ID : t \in {x \in Tokens \cup {NoToken} : ~requireAuthRejects(x)}}

(* The optional-auth routes pass zero when no token resolves. *)
optionalAuthIDs == {optionalAuth(t) : t \in (DOMAIN sessions) \cup {NoToken}}

(* One request at a time: a call is made when the previous response has   *)
(* been delivered.                                                        *)
Idle == last.op = "none"

(* A call served as one step by the one goroutine there is: Store.mu is   *)
(* free before and after it.                                              *)
Serial == Idle /\ UNCHANGED conc

Respond ==
    /\ ~Idle
    /\ last' = NoCall
    /\ UNCHANGED <<dbPath, running, tables, disk, clock, conc>>

(* The calls of the handlers, for the registration forms, the outcomes ws *)
(* of the snapshot write, and for at most nU users, nN novels, nCh        *)
(* chapters, nCm comments and nB bookmarks.                               *)
Calls(forms, ws, nU, nN, nCh, nCm, nB) ==
    \/ \E f \in forms, salt \in Salts, w \in ws :
          Serial /\ nextUserID < nU
          /\ Register(f.username, f.email, f.password, salt, TokenOf(f), w)
    \/ \E t \in Tokens \cup {NoToken} : Serial /\ Rejected(t)
    \/ \E r \in requireAuthIDs, ti \in Titles, st \in CreateStatuses, w \in ws :
          Serial /\ nextNovelID < nN /\ CreateNovel(r, ti, <<>>, <<>>, st, w)
    \/ \E r \in optionalAuthIDs, a \in {0} \cup DOMAIN usersByID, inc \in BOOLEAN :
          Serial /\ ListNovels(<<>>, a, inc, r, 0, 0)
    \/ \E id \in 1..nN, r \in optionalAuthIDs : Serial /\ NovelByID(id, r)
    \/ \E id \in 1..nN, r \in requireAuthIDs, st \in UpdateStatuses, w \in ws :
          Serial /\ UpdateNovel(id, r, <<>>, <<>>, <<>>, st, w)
    \/ \E id \in 1..nN, r \in requireAuthIDs, w \in ws : Serial /\ DeleteNovel(id, r, w)
    \/ \E id \in 1..nN, r \in requireAuthIDs, ti \in ChapterTitles, w \in ws :
          Serial /\ nextChapterID < nCh /\ CreateChapter(id, r, ti, <<>>, 0, w)
    \/ \E id \in 1..nN, r \in optionalAuthIDs : Serial /\ ListChapters(id, r)
    \/ \E id \in 1..nN, c \in 1..nCh, r \in optionalAuthIDs : Serial /\ ChapterByID(id, c, r)
    \/ \E id \in 1..nN, c \in 1..nCh, r \in requireAuthIDs, w \in ws :
          Serial /\ UpdateChapter(id, c, r, <<>>, <<>>, 0, w)
    \/ \E id \in 1..nN, c \in 1..nCh, r \in requireAuthIDs, w \in ws :
          Serial /\ DeleteChapter(id, c, r, w)
    \/ \E id \in 1..nN, c \in Opt(1..nCh), r \in requireAuthIDs, b \in Bodies, w \in ws :
          Serial /\ nextCommentID < nCm /\ CreateComment(id, c, r, b, w)
    \/ \E id \in 1..nN, c \in Opt(1..nCh), r \in optionalAuthIDs :
          Serial /\ ListComments(id, r, c)
    \/ \E id \in 1..nN, c \in Opt(1..nCh), r \in requireAuthIDs, w \in ws :
          Serial /\ (bookmarkKey(r, id) \in DOMAIN bookmarks
              \/ Cardinality(DOMAIN bookmarks) < nB)
          /\ UpsertBookmark(r, id, c, w)
    \/ \E r \in requireAuthIDs : Serial /\ MyBookmarks(r)

(* Two users and one novel with its chapters, comment and bookmarks. *)
Next ==
    \/ Respond
    \/ Calls({Alice, Bob, Blank}, {"ok"}, MaxUsers, MaxNovels, MaxChapters,
             MaxComments, MaxBookmarks)

Spec == Init /\ [][Next]_vars

(* One user, two novels, and restarts of the process. *)
NextCascade ==
    \/ Respond
    \/ Calls({Alice}, {"ok"}, CascadeUsers, CascadeNovels, CascadeChapters,
             CascadeComments, CascadeBookmarks)
    \/ Serial /\ Restart

SpecCascade == Init /\ [][NextCascade]_vars

(* What os.WriteFile and the calls before it may do: write the file,      *)
(* fail before the file is opened, or fail (or be killed) after the file  *)
(* was truncated and before the document is complete.                     *)
WriteOutcomes == {"ok", "unwritten", "truncated"}

(* One user and one novel, snapshot writes that fail, and restarts. *)
NextFault ==
    \/ Respond
    \/ Calls({Alice}, WriteOutcomes, FaultUsers, FaultNovels, FaultChapters,
             FaultComments, FaultBookmarks)
    \/ Serial /\ Restart

SpecFault == Init /\ [][NextFault]_vars

(* The identities a caller of the package passes as requesterID or       *)
(* userID: the id of a user, or zero for a requester without a session.   *)
StoreCallers == {0} \cup DOMAIN usersByID

(* The methods of Store called directly, as the package exports them: one *)
(* user, one novel with a chapter, comments and bookmarks.                *)
NextStore ==
    \/ Respond
    \/ \E salt \in Salts :
          Serial /\ nextUserID < StoreUsers
          /\ Register(Alice.username, Alice.email, Alice.password, salt,
                      TokenOf(Alice), "ok")
    \/ \E r \in DOMAIN usersByID, ti \in Titles, st \in CreateStatuses :
          Serial /\ nextNovelID < StoreNovels
          /\ CreateNovel(r, ti, <<>>, <<>>, st, "ok")
    \/ \E id \in 1..StoreNovels, r \in StoreCallers, st \in UpdateStatuses :
          Serial /\ UpdateNovel(id, r, <<>>, <<>>, <<>>, st, "ok")
    \/ \E id \in 1..StoreNovels, r \in StoreCallers, ti \in ChapterTitles :
          Serial /\ nextChapterID < StoreChapters
          /\ CreateChapter(id, r, ti, <<>>, 0, "ok")
    \/ \E id \in 1..StoreNovels, c \in Opt(1..StoreChapters), r \in StoreCallers,
          b \in Bodies :
          Serial /\ nextCommentID < StoreComments
          /\ CreateComment(id, c, r, b, "ok")
    \/ \E id \in 1..StoreNovels, c \in Opt(1..StoreChapters), r \in StoreCallers :
          Serial /\ ListComments(id, r, c)
    \/ \E id \in 1..StoreNovels, c \in Opt(1..StoreChapters), r \in StoreCallers :
          Serial /\ (bookmarkKey(r, id) \in DOMAIN bookmarks
              \/ Cardinality(DOMAIN bookmarks) < StoreBookmarks)
          /\ UpsertBookmark(r, id, c, "ok")
    \/ \E r \in StoreCallers : Serial /\ MyBookmarks(r)

SpecStore == Init /\ [][NextStore]_vars

(* The position field of chapterReq: absent (zero) or given. *)
Positions == 0..OrderPosition

(* Lists in time: one user, published novels, chapters created and moved  *)
(* to given positions, comments, paged novel lists, and the clock.        *)
NextOrder ==
    \/ Respond
    \/ \E salt \in Salts :
          Serial /\ nextUserID < OrderUsers
          /\ Register(Alice.username, Alice.email, Alice.password, salt,
                      TokenOf(Alice), "ok")
    \/ \E r \in requireAuthIDs :
          Serial /\ nextNovelID < OrderNovels
          /\ CreateNovel(r, <<"t">>, <<>>, <<>>, NovelPublished, "ok")
    \/ \E id \in 1..OrderNovels, r \in requireAuthIDs :
          Serial /\ UpdateNovel(id, r, <<>>, <<>>, <<>>, <<>>, "ok")
    \/ \E id \in 1..OrderNovels, r \in requireAuthIDs, p \in Positions :
          Serial /\ nextChapterID < OrderChapters
          /\ CreateChapter(id, r, <<"c">>, <<>>, p, "ok")
    \/ \E id \in 1..OrderNovels, c \in 1..OrderChapters, r \in requireAuthIDs,
          p \in Positions :
          Serial /\ UpdateChapter(id, c, r, <<>>, <<>>, p, "ok")
    \/ \E id \in 1..OrderNovels, r \in requireAuthIDs :
          Serial /\ nextCommentID < OrderComments
          /\ CreateComment(id, <<>>, r, <<"k">>, "ok")
    \/ \E r \in optionalAuthIDs, limit \in (-1)..OrderLimit,
          offset \in (-1)..(OrderNovels + 1) :
          Serial /\ ListNovels(<<>>, 0, FALSE, r, limit, offset)
    \/ \E id \in 1..OrderNovels, r \in optionalAuthIDs : Serial /\ ListChapters(id, r)
    \/ \E id \in 1..OrderNovels, r \in optionalAuthIDs : Serial /\ ListComments(id, r, <<>>)
    \/ Serial /\ clock < OrderClock /\ Tick

SpecOrder == Init /\ [][NextOrder]_vars

(* A text field of a request: absent or empty, blank, or a word. *)
Texts == {<<>>, <<Space>>, <<"d">>}

(* Partial updates: one user, a novel and its chapters updated field by   *)
(* field and moved, a bookmark on a chapter, and the clock.               *)
NextEdit ==
    \/ Respond
    \/ \E salt \in Salts :
          Serial /\ nextUserID < EditUsers
          /\ Register(Alice.username, Alice.email, Alice.password, salt,
                      TokenOf(Alice), "ok")
    \/ \E r \in requireAuthIDs, d \in Texts, g \in Texts :
          Serial /\ nextNovelID < EditNovels
          /\ CreateNovel(r, <<"t">>, d, g, NovelPublished, "ok")
    \/ \E id \in 1..EditNovels, r \in requireAuthIDs, ti \in Texts, d \in Texts,
          g \in Texts :
          Serial /\ UpdateNovel(id, r, ti, d, g, <<>>, "ok")
    \/ \E id \in 1..EditNovels, r \in requireAuthIDs, co \in Texts :
          Serial /\ nextChapterID < EditChapters
          /\ CreateChapter(id, r, <<"c">>, co, 0, "ok")
    \/ \E id \in 1..EditNovels, c \in 1..EditChapters, r \in requireAuthIDs,
          ti \in Texts, co \in Texts, p \in 0..EditPosition :
          Serial /\ UpdateChapter(id, c, r, ti, co, p, "ok")
    \/ \E id \in 1..EditNovels, c \in Opt(1..EditChapters), r \in requireAuthIDs :
          Serial /\ (bookmarkKey(r, id) \in DOMAIN bookmarks
              \/ Cardinality(DOMAIN bookmarks) < EditBookmarks)
          /\ UpsertBookmark(r, id, c, "ok")
    \/ \E r \in requireAuthIDs : Serial /\ MyBookmarks(r)
    \/ Serial /\ clock < EditClock /\ Tick

SpecEdit == Init /\ [][NextEdit]_vars

(* Registration and login with names that differ in case and blanks,     *)
(* random tokens, the clock, and restarts of the process.                 *)
Usernames == {<<"a">>, <<Space, "A">>, <<"b">>, <<Space>>}
Emails == {<<"x">>, <<"X", Space>>, <<"y">>}
Passwords == {<<"p">>, <<>>}
LoginPasswords == {<<"p">>, <<"q">>}

NextIdentity ==
    \/ Respond
    \/ \E u \in Usernames, e \in Emails, p \in Passwords, salt \in Salts, t \in Tokens :
          /\ Serial
          /\ \/ nextUserID < IdUsers
             \/ RegisterErr(u, e, p, salt, t, "ok") \in {ErrInvalid, ErrConflict}
          /\ Register(u, e, p, salt, t, "ok")
    \/ \E e \in Emails, p \in LoginPasswords, t \in Tokens :
          Serial /\ Login(e, p, t, "ok")
    \/ \E t \in Tokens \cup {NoToken} : Serial /\ Rejected(t)
    \/ \E t \in Tokens : Serial /\ Me(t)
    \/ Serial /\ Restart
    \/ Serial /\ clock < IdClock /\ Tick

SpecIdentity == Init /\ [][NextIdentity]_vars

(* Two users and one novel: calls that are refused (invalid input, a      *)
(* claimed name, a wrong password, a foreign or missing novel) among      *)
(* calls that succeed, with edits that carry a title, a description and a *)
(* genre next to a status.                                                *)
NovelTexts == {<<>>, <<"u">>}

NextReject ==
    \/ Respond
    \/ Calls({Alice, Bob, Blank}, {"ok"}, RejectUsers, RejectNovels,
             RejectChapters, RejectComments, RejectBookmarks)
    \/ \E e \in Emails, p \in LoginPasswords, t \in Tokens :
          Serial /\ Login(e, p, t, "ok")
    \/ \E id \in 1..RejectNovels, r \in requireAuthIDs, ti \in NovelTexts,
          d \in NovelTexts, st \in UpdateStatuses :
          Serial /\ UpdateNovel(id, r, ti, d, d, st, "ok")

SpecReject == Init /\ [][NextReject]_vars

----------------------------------------------------------------------------
(* Goroutines: every method of Store runs between Lock and the deferred   *)
(* Unlock, or between RLock and the deferred RUnlock, of Store.mu.        *)

(* sync.RWMutex: Lock returns once nobody holds the mutex, RLock once no  *)
(* writer holds it.  (That a waiting Lock also holds back later RLock     *)
(* calls only removes behaviours.)                                        *)
canLockAlways(t) == TRUE

canLock(t) == mu.writer = 0 /\ mu.readers = {}

canRLockAlways(t) == TRUE

canRLock(t) == mu.writer = 0

Goto(t, label) == pc' = [pc EXCEPT ![t] = label]

(* s.mu.Lock() of goroutine t, which starts the call op(args). *)
Lock(t, op, args, label) ==
    /\ pc[t] = "idle"
    /\ canLock(t)
    /\ mu' = [mu EXCEPT !.writer = t]
    /\ local' = [local EXCEPT ![t] = Frame(op, args)]
    /\ Goto(t, label)

(* s.mu.RLock() of goroutine t, which starts the call op(args). *)
RLock(t, op, args, label) ==
    /\ pc[t] = "idle"
    /\ canRLock(t)
    /\ mu' = [mu EXCEPT !.readers = @ \cup {t}]
    /\ local' = [local EXCEPT ![t] = Frame(op, args)]
    /\ Goto(t, label)

(* The deferred s.mu.Unlock(): the method returns what it computed. *)
Unlock(t) ==
    /\ pc[t] = "unlock"
    /\ mu' = [mu EXCEPT !.writer = 0]
    /\ local' = [local EXCEPT ![t] =
                    [Frame(last.op, last.args) EXCEPT !.err = last.err,
                                                      !.val = last.val]]
    /\ last' = NoCall
    /\ Goto(t, "return")
    /\ UNCHANGED <<dbPath, running, tables, disk, clock>>

(* The deferred s.mu.RUnlock(). *)
RUnlock(t) ==
    /\ pc[t] = "runlock"
    /\ mu' = [mu EXCEPT !.readers = @ \ {t}]
    /\ Goto(t, "return")
    /\ UNCHANGED <<dbPath, running, tables, disk, clock, last, local>>

(* The caller has the result; the goroutine serves its next request. *)
Return(t) ==
    /\ pc[t] = "return"
    /\ Goto(t, "idle")
    /\ local' = [local EXCEPT ![t] = NoFrame]
    /\ UNCHANGED <<dbPath, running, tables, disk, clock, last, mu>>

(* A mutation whose body is taken as one step under the write lock. *)
Locked(t) ==
    /\ pc[t] = "idle"
    /\ canLock(t)
    /\ mu' = [mu EXCEPT !.writer = t]
    /\ Goto(t, "unlock")
    /\ UNCHANGED local

(* DeleteNovel, statement by statement. *)
dnLock(t, id, requesterID) ==
    /\ Lock(t, "DeleteNovel", [id |-> id, requesterID |-> requesterID], "dnNovel")
    /\ UNCHANGED <<dbPath, running, tables, disk, clock, last>>

(* The lookup, the ownership test and delete(s.novelsByID, id). *)
dnNovel(t) ==
    LET a == local[t].args
        err == DeleteNovelErr(a.id, a.requesterID, "ok")
    IN  /\ pc[t] = "dnNovel"
        /\ IF err # Nil
           THEN /\ last' = Call("DeleteNovel", a, err, <<>>)
                /\ Goto(t, "unlock")
                /\ UNCHANGED <<tables, local>>
           ELSE /\ novelsByID' = Del(novelsByID, a.id)
                /\ local' = [local EXCEPT ![t].ids = Get(chapterIDsByNovel, a.id)]
                /\ Goto(t, "dnChapters")
                /\ UNCHANGED <<userTables, chapterTables, commentTables,
                               bookmarks, sessions, counters, last>>
        /\ UNCHANGED <<dbPath, running, disk, clock, mu>>

(* The loop over s.chapterIDsByNovel[id], then delete of that list. *)
dnChapters(t) ==
    LET a == local[t].args
        ids == local[t].ids
    IN  /\ pc[t] = "dnChapters"
        /\ IF ids # <<>>
           THEN /\ chaptersByID' = Del(chaptersByID, Head(ids))
                /\ local' = [local EXCEPT ![t].ids = Tail(ids)]
                /\ UNCHANGED <<chapterIDsByNovel, pc>>
           ELSE /\ chapterIDsByNovel' = Del(chapterIDsByNovel, a.id)
                /\ local' = [local EXCEPT ![t].ids = Get(commentIDsByNovel, a.id)]
                /\ Goto(t, "dnComments")
                /\ UNCHANGED chaptersByID
        /\ UNCHANGED <<userTables, novelsByID, commentTables, bookmarks,
                       sessions, counters>>
        /\ UNCHANGED <<dbPath, running, disk, clock, last, mu>>

(* The loop over s.commentIDsByNovel[id], then delete of that list. *)
dnComments(t) ==
    LET a == local[t].args
        ids == local[t].ids
    IN  /\ pc[t] = "dnComments"
        /\ IF ids # <<>>
           THEN /\ commentsByID' = Del(commentsByID, Head(ids))
                /\ local' = [local EXCEPT ![t].ids = Tail(ids)]
                /\ UNCHANGED <<commentIDsByNovel, pc>>
           ELSE /\ commentIDsByNovel' = Del(commentIDsByNovel, a.id)
                /\ Goto(t, "dnBookmarks")
                /\ UNCHANGED <<commentsByID, local>>
        /\ UNCHANGED <<userTables, novelsByID, chapterTables, bookmarks,
                       sessions, counters>>
        /\ UNCHANGED <<dbPath, running, disk, clock, last, mu>>

(* The loop over s.bookmarks, in the order the map range happens to take: *)
(* the entries of other novels are passed over.                           *)
dnBookmarks(t) ==
    LET a == local[t].args
        ks == {k \in DOMAIN bookmarks : deleteNovelDropsBookmark(bookmarks[k], a.id)}
    IN  /\ pc[t] = "dnBookmarks"
        /\ IF ks # {}
           THEN /\ \E k \in ks : bookmarks' = Del(bookmarks, k)
                /\ UNCHANGED pc
           ELSE /\ Goto(t, "dnPersist")
                /\ UNCHANGED bookmarks
        /\ UNCHANGED <<userTables, novelsByID, chapterTables, commentTables,
                       sessions, counters>>
        /\ UNCHANGED <<dbPath, running, disk, clock, last, mu, local>>

dnPersist(t) ==
    /\ pc[t] = "dnPersist"
    /\ UNCHANGED tables
    /\ persistLocked("ok")
    /\ last' = Call("DeleteNovel", local[t].args, Nil, <<>>)
    /\ Goto(t, "unlock")
    /\ UNCHANGED <<dbPath, running, clock, mu, local>>

(* CreateChapter, statement by statement. *)
ccLock(t, novelID, requesterID, title, position) ==
    /\ Lock(t, "CreateChapter",
            [novelID |-> novelID, requesterID |-> requesterID, title |-> title,
             content |-> <<>>, position |-> position], "ccCheck")
    /\ UNCHANGED <<dbPath, running, tables, disk, clock, last>>

(* The lookup (n is a copy of the novel), the tests, s.nextChapterID++. *)
ccCheck(t) ==
    LET a == local[t].args
        err == CreateChapterErr(a.novelID, a.requesterID, a.title, a.content,
                                a.position, "ok")
    IN  /\ pc[t] = "ccCheck"
        /\ IF err # Nil
           THEN /\ last' = Call("CreateChapter", a, err, NoChapter)
                /\ Goto(t, "unlock")
                /\ UNCHANGED <<nextChapterID, local>>
           ELSE /\ nextChapterID' = nextChapterID + 1
                /\ local' = [local EXCEPT ![t].n = novelsByID[a.novelID]]
                /\ Goto(t, "ccBuild")
                /\ UNCHANGED last
        /\ UNCHANGED <<userTables, novelsByID, chapterTables, commentTables,
                       bookmarks, sessions, nextUserID, nextNovelID, nextCommentID>>
        /\ UNCHANGED <<dbPath, running, disk, clock, mu>>

(* ch is built with ID: s.nextChapterID and stored in s.chaptersByID. *)
ccBuild(t) ==
    LET a == local[t].args
        ch == [ID |-> nextChapterID,
               NovelID |-> a.novelID,
               Title |-> TrimSpace(a.title),
               Content |-> a.content,
               Position |-> IF a.position <= 0
                            THEN Len(Get(chapterIDsByNovel, a.novelID)) + 1
                            ELSE a.position,
               CreatedAt |-> clock,
               UpdatedAt |-> clock]
    IN  /\ pc[t] = "ccBuild"
        /\ chaptersByID' = Put(chaptersByID, ch.ID, ch)
        /\ local' = [local EXCEPT ![t].val = ch]
        /\ Goto(t, "ccIndex")
        /\ UNCHANGED <<userTables, novelsByID, chapterIDsByNovel, commentTables,
                       bookmarks, sessions, counters>>
        /\ UNCHANGED <<dbPath, running, disk, clock, last, mu>>

(* The append to s.chapterIDsByNovel[novelID]; n goes back to the table. *)
ccIndex(t) ==
    LET a == local[t].args IN
    /\ pc[t] = "ccIndex"
    /\ chapterIDsByNovel' =
          Put(chapterIDsByNovel, a.novelID,
              Append(Get(chapterIDsByNovel, a.novelID), local[t].val.ID))
    /\ novelsByID' = Put(novelsByID, a.novelID,
                         [local[t].n EXCEPT !.UpdatedAt = clock])
    /\ Goto(t, "ccPersist")
    /\ UNCHANGED <<userTables, chaptersByID, commentTables, bookmarks,
                   sessions, counters>>
    /\ UNCHANGED <<dbPath, running, disk, clock, last, mu, local>>

ccPersist(t) ==
    /\ pc[t] = "ccPersist"
    /\ UNCHANGED tables
    /\ persistLocked("ok")
    /\ last' = Call("CreateChapter", local[t].args, Nil, local[t].val)
    /\ Goto(t, "unlock")
    /\ UNCHANGED <<dbPath, running, clock, mu, local>>

(* ListChapters, statement by statement. *)
lcRLock(t, novelID, requesterID) ==
    /\ RLock(t, "ListChapters",
             [novelID |-> novelID, requesterID |-> requesterID], "lcCheck")
    /\ UNCHANGED <<dbPath, running, tables, disk, clock, last>>

(* The lookup, the visibility test, and the slice the loop ranges over. *)
lcCheck(t) ==
    LET a == local[t].args
        err == ListChaptersErr(a.novelID, a.requesterID)
    IN  /\ pc[t] = "lcCheck"
        /\ IF err # Nil
           THEN /\ local' = [local EXCEPT ![t].err = err]
                /\ Goto(t, "runlock")
           ELSE /\ local' = [local EXCEPT ![t].ids = Get(chapterIDsByNovel, a.novelID)]
                /\ Goto(t, "lcLoop")
        /\ UNCHANGED <<dbPath, running, tables, disk, clock, last, mu>>

(* res = append(res, s.chaptersByID[id]): a missing key reads as the zero *)
(* Chapter.  After the loop, sort.Slice by position.                      *)
lcLoop(t) ==
    LET ids == local[t].ids
        res == local[t].val
    IN  /\ pc[t] = "lcLoop"
        /\ IF ids # <<>>
           THEN /\ local' = [local EXCEPT
                       ![t].val = Append(res, IF Head(ids) \in DOMAIN chaptersByID
                                              THEN chaptersByID[Head(ids)]
                                              ELSE NoChapter),
                       ![t].ids = Tail(ids)]
                /\ UNCHANGED pc
           ELSE /\ \E o \in Orders(1..Len(res)) :
                      LET sorted == [i \in 1..Len(res) |-> res[o[i]]] IN
                      /\ ByPosition(sorted)
                      /\ local' = [local EXCEPT ![t].val = sorted]
                /\ Goto(t, "runlock")
        /\ UNCHANGED <<dbPath, running, tables, disk, clock, last, mu>>

(* Two goroutines; one user, one novel, its chapters, a comment and a     *)
(* bookmark.                                                              *)
NextConc ==
    \/ \E t \in Threads : Unlock(t)
    \/ \E t \in Threads : RUnlock(t)
    \/ \E t \in Threads : Return(t)
    \/ \E t \in Threads, salt \in Salts :
          /\ nextUserID < ConcUsers
          /\ Locked(t)
          /\ Register(Alice.username, Alice.email, Alice.password, salt,
                      TokenOf(Alice), "ok")
    \/ \E t \in Threads, r \in requireAuthIDs, st \in {"", NovelPublished} :
          /\ nextNovelID < ConcNovels
          /\ Locked(t)
          /\ CreateNovel(r, <<"t">>, <<>>, <<>>, st, "ok")
    \/ \E t \in Threads, id \in 1..ConcNovels, c \in Opt(1..ConcChapters),
          r \in requireAuthIDs :
          /\ nextCommentID < ConcComments
          /\ Locked(t)
          /\ CreateComment(id, c, r, <<"k">>, "ok")
    \/ \E t \in Threads, id \in 1..ConcNovels, c \in Opt(1..ConcChapters),
          r \in requireAuthIDs :
          /\ bookmarkKey(r, id) \in DOMAIN bookmarks
                \/ Cardinality(DOMAIN bookmarks) < ConcBookmarks
          /\ Locked(t)
          /\ UpsertBookmark(r, id, c, "ok")
    \/ \E t \in Threads :
          Locked(t) /\ Login(Alice.email, Alice.password, TokenOf(Alice), "ok")
    \/ \E t \in Threads, id \in 1..ConcNovels, r \in requireAuthIDs,
          st \in {<<NovelDraft>>, <<NovelPublished>>} :
          Locked(t) /\ UpdateNovel(id, r, <<>>, <<>>, <<>>, st, "ok")
    \/ \E t \in Threads, id \in 1..ConcNovels, c \in 1..ConcChapters,
          r \in requireAuthIDs :
          Locked(t) /\ UpdateChapter(id, c, r, <<>>, <<>>, 0, "ok")
    \/ \E t \in Threads, id \in 1..ConcNovels, c \in 1..ConcChapters,
          r \in requireAuthIDs :
          Locked(t) /\ DeleteChapter(id, c, r, "ok")
    \/ \E t \in Threads, id \in 1..ConcNovels, r \in requireAuthIDs : dnLock(t, id, r)
    \/ \E t \in Threads : dnNovel(t)
    \/ \E t \in Threads : dnChapters(t)
    \/ \E t \in Threads : dnComments(t)
    \/ \E t \in Threads : dnBookmarks(t)
    \/ \E t \in Threads : dnPersist(t)
    \/ \E t \in Threads, id \in 1..ConcNovels, r \in requireAuthIDs :
          nextChapterID < ConcChapters /\ ccLock(t, id, r, <<"c">>, 0)
    \/ \E t \in Threads : ccCheck(t)
    \/ \E t \in Threads : ccBuild(t)
    \/ \E t \in Threads : ccIndex(t)
    \/ \E t \in Threads : ccPersist(t)
    \/ \E t \in Threads, id \in 1..ConcNovels, r \in optionalAuthIDs : lcRLock(t, id, r)
    \/ \E t \in Threads : lcCheck(t)
    \/ \E t \in Threads : lcLoop(t)

SpecConc == Init /\ [][NextConc]_vars

----------------------------------------------------------------------------
(* Properties *)

(* What the specification calls a normalized name: lower-cased, trimmed. *)
Normalized(str) == TrimSpace(ToLower(str))

(* The HTTP answer is 403 Forbidden. *)
Forbidden(l) == l.err # Nil /\ handleStoreErr(l.err) = StatusForbidden

(* The HTTP answer is 404 Not Found. *)
NotFound(l) == l.err # Nil /\ handleStoreErr(l.err) = StatusNotFound

(* The novel a call addresses. *)
TargetNovel(l) == IF "novelID" \in DOMAIN l.args THEN l.args.novelID ELSE l.args.id

UsersUnique ==
    \A i, j \in DOMAIN usersByID :
        i # j => /\ Normalized(usersByID[i].Username) # Normalized(usersByID[j].Username)
                 /\ Normalized(usersByID[i].Email) # Normalized(usersByID[j].Email)

NameClaimed(args) ==
    \E i \in DOMAIN usersByID :
        \/ Normalized(usersByID[i].Username) = Normalized(args.username)
        \/ Normalized(usersByID[i].Email) = Normalized(args.email)

WellFormed(args) ==
    /\ Normalized(args.username) # <<>>
    /\ Normalized(args.email) # <<>>
    /\ args.password # <<>>

RegisterConflictStep ==
    (last'.op = "Register" /\ WellFormed(last'.args) /\ NameClaimed(last'.args))
        => /\ last'.err = ErrConflict
           /\ handleStoreErr(last'.err) = StatusConflict
           /\ UNCHANGED <<usersByID, usersByEmail, usersByUsername, sessions>>

(* C1: no two stored users share a normalized (lower-cased, trimmed)       *)
(* username or a normalized e-mail, and a Register call with all three    *)
(* fields given whose normalized username or e-mail belongs to a stored   *)
(* user fails with Conflict and adds no user and no session.              *)
C1_UniqueUsers == []UsersUnique /\ [][RegisterConflictStep]_vars

(* Two users are stored and a name that differs from a stored one only in *)
(* case and blanks was refused.                                           *)
C1_Witness ==
    /\ last.op = "Register" /\ last.err = ErrConflict
    /\ Cardinality(DOMAIN usersByID) = 2
    /\ \E i \in DOMAIN usersByID :
          /\ usersByID[i].Username # TrimSpace(last.args.username)
          /\ Normalized(usersByID[i].Username) = Normalized(last.args.username)

ReadOps == {"NovelByID", "ListChapters", "ChapterByID", "ListComments"}

NoContent(l) == l.val \in {NoNovel, NoChapter, <<>>}

(* A read that finds what it addresses: ChapterByID needs its chapter.    *)
Addressed(l) ==
    l.op = "ChapterByID" =>
        /\ l.args.chapterID \in DOMAIN chaptersByID
        /\ chaptersByID[l.args.chapterID].NovelID = l.args.novelID

(* C2: a read of a draft novel (NovelByID, ListChapters, ChapterByID,      *)
(* ListComments) by anyone but its author, the unauthenticated requester  *)
(* included, is answered Forbidden and returns nothing of the novel; the  *)
(* author's reads succeed; every requester's reads succeed on a published *)
(* novel.                                                                 *)
C2_DraftVisibility ==
    (last.op \in ReadOps /\ TargetNovel(last) \in DOMAIN novelsByID) =>
        LET n == novelsByID[TargetNovel(last)] IN
        /\ (n.Status = NovelDraft /\ last.args.requesterID # n.AuthorID)
              => Forbidden(last) /\ NoContent(last)
        /\ (Addressed(last) /\
            (n.Status = NovelPublished \/ last.args.requesterID = n.AuthorID))
              => /\ last.err = Nil
                 /\ last.op = "NovelByID" => last.val = n
                 /\ last.op = "ChapterByID" =>
                        last.val = chaptersByID[last.args.chapterID]

(* A registered user who is not the author was refused a chapter of a     *)
(* draft that exists.                                                     *)
C2_Witness ==
    /\ last.op = "ChapterByID" /\ Forbidden(last)
    /\ TargetNovel(last) \in DOMAIN novelsByID
    /\ novelsByID[TargetNovel(last)].Status = NovelDraft
    /\ last.args.requesterID \in DOMAIN usersByID
    /\ last.args.chapterID \in DOMAIN chaptersByID

(* C3: ListNovels never returns a draft novel whose author is not the    *)
(* requester, whatever the value of the include_drafts flag.              *)
C3_NoForeignDrafts ==
    last.op = "ListNovels" =>
        \A i \in 1..Len(last.val) :
            last.val[i].Status # NovelPublished =>
                last.val[i].AuthorID = last.args.requesterID

OwnerOps == {"UpdateNovel", "DeleteNovel", "CreateChapter", "UpdateChapter",
             "DeleteChapter"}

OwnershipStep ==
    (last'.op \in OwnerOps /\ TargetNovel(last') \in DOMAIN novelsByID) =>
        LET n == novelsByID[TargetNovel(last')] IN
        /\ last'.args.requesterID # n.AuthorID
              => Forbidden(last') /\ UNCHANGED <<tables, disk>>
        /\ last'.err = Nil => last'.args.requesterID = n.AuthorID

(* C4: UpdateNovel, DeleteNovel, CreateChapter, UpdateChapter and         *)
(* DeleteChapter on an existing novel succeed only for the novel's        *)
(* author; for any other requester the answer is Forbidden and no table,  *)
(* no counter and not the snapshot file changes.                          *)
C4_OwnerOnly == [][OwnershipStep]_vars

(* Another user's DeleteChapter on a chapter that exists was refused.     *)
C4_Witness ==
    /\ last.op = "DeleteChapter" /\ Forbidden(last)
    /\ last.args.chapterID \in DOMAIN chaptersByID
    /\ chaptersByID[last.args.chapterID].NovelID = last.args.novelID
    /\ last.args.requesterID \in DOMAIN usersByID
    /\ DOMAIN bookmarks # {} /\ DOMAIN commentsByID # {}

(* Nothing of novel id is left in the tables. *)
NoTrace(id) ==
    /\ id \notin DOMAIN novelsByID
    /\ \A c \in DOMAIN chaptersByID : chaptersByID[c].NovelID # id
    /\ id \notin DOMAIN chapterIDsByNovel
    /\ \A c \in DOMAIN commentsByID : commentsByID[c].NovelID # id
    /\ id \notin DOMAIN commentIDsByNovel
    /\ \A k \in DOMAIN bookmarks : bookmarks[k].NovelID # id

(* The ids of the novels that were created and are stored no more. *)
Deleted == {id \in 1..nextNovelID : id \notin DOMAIN novelsByID}

DeleteNovelStep ==
    \A id \in DOMAIN novelsByID :
        (last'.op = "DeleteNovel" /\ last'.err = Nil /\ last'.args.id = id)
            => NoTrace(id)'

StaysDeleted == \A id \in Deleted : id \in Deleted' /\ NoTrace(id)'

ReadOfDeleted ==
    (last.op \in ReadOps /\ TargetNovel(last) \in Deleted)
        => NotFound(last) /\ NoContent(last)

(* C5: after a successful DeleteNovel(N) no chapter, comment or bookmark   *)
(* with novel id N is left in any table or per-novel id list, this stays  *)
(* so whatever is created later, and every later NovelByID, ListChapters, *)
(* ChapterByID and ListComments for N is answered NotFound.               *)
C5_CascadeDelete ==
    [][DeleteNovelStep /\ StaysDeleted]_vars /\ []ReadOfDeleted

(* Novel 1 had a chapter, was deleted, a later novel with a chapter and a *)
(* bookmark exists, and a read of novel 1 was answered NotFound.          *)
C5_Witness ==
    /\ last.op = "ListChapters" /\ NotFound(last) /\ TargetNovel(last) \in Deleted
    /\ \E id \in DOMAIN novelsByID : id > TargetNovel(last)
    /\ \E c \in 1..nextChapterID : c \notin DOMAIN chaptersByID
    /\ DOMAIN chaptersByID # {} /\ DOMAIN bookmarks # {}

PointsAt(b, chapterID) == b.ChapterID = <<chapterID>>

DeleteChapterStep ==
    (last'.op = "DeleteChapter" /\ last'.err = Nil) =>
        /\ DOMAIN bookmarks' = DOMAIN bookmarks
        /\ \A k \in DOMAIN bookmarks :
              bookmarks'[k] =
                 IF PointsAt(bookmarks[k], last'.args.chapterID)
                 THEN [UserID |-> bookmarks[k].UserID,
                       NovelID |-> bookmarks[k].NovelID,
                       ChapterID |-> <<>>,
                       UpdatedAt |-> bookmarks[k].UpdatedAt,
                       ChapterPos |-> <<>>]
                 ELSE bookmarks[k]
        /\ UNCHANGED <<commentsByID, commentIDsByNovel>>

(* C8: a successful DeleteChapter(C) keeps every bookmark; those that      *)
(* pointed at C keep their user and novel and lose their chapter          *)
(* reference and their position, the others and all comments, those on C  *)
(* included, are unchanged.                                               *)
C8_DeleteChapterBookmarks == [][DeleteChapterStep]_vars

(* A chapter was deleted: one bookmark lost its chapter, another still     *)
(* points at a chapter, and a comment on the deleted chapter is stored.   *)
C8_Witness ==
    /\ last.op = "DeleteChapter" /\ last.err = Nil
    /\ \E k \in DOMAIN bookmarks :
          bookmarks[k].ChapterID = <<>> /\ bookmarks[k].ChapterPos = <<>>
    /\ \E k \in DOMAIN bookmarks : bookmarks[k].ChapterID # <<>>
    /\ \E c \in DOMAIN commentsByID :
          commentsByID[c].ChapterID = <<last.args.chapterID>>

BookmarksOf(userID, novelID) ==
    {k \in DOMAIN bookmarks :
        bookmarks[k].UserID = userID /\ bookmarks[k].NovelID = novelID}

OneBookmarkPerPair ==
    \A k1, k2 \in DOMAIN bookmarks :
        (bookmarks[k1].UserID = bookmarks[k2].UserID
            /\ bookmarks[k1].NovelID = bookmarks[k2].NovelID) => k1 = k2

UpsertStep ==
    \A u \in 0..nextUserID, n \in DOMAIN novelsByID :
        (/\ last'.op = "UpsertBookmark" /\ last'.err = Nil
         /\ last'.args.userID = u /\ last'.args.novelID = n) =>
            LET a == last'.args IN
            /\ Cardinality(BookmarksOf(u, n)') = 1
            /\ \A k \in BookmarksOf(u, n)' :
                  /\ bookmarks'[k].ChapterID = a.chapterID
                  /\ bookmarks'[k].ChapterPos =
                        IF a.chapterID = <<>> THEN <<>>
                        ELSE <<chaptersByID[a.chapterID[1]].Position>>
            /\ \A k \in DOMAIN bookmarks :
                  (bookmarks[k].UserID # u \/ bookmarks[k].NovelID # n)
                     => k \in DOMAIN bookmarks' /\ bookmarks'[k] = bookmarks[k]

(* C9: there is at most one bookmark per (user, novel) pair; after a       *)
(* successful UpsertBookmark the pair has exactly one record, with the    *)
(* chapter reference and the chapter position of that call (so of the     *)
(* second of two calls), and the records of the other pairs are the same. *)
C9_OneBookmarkPerPair == []OneBookmarkPerPair /\ [][UpsertStep]_vars

(* An upsert replaced the pair's bookmark: a second user's bookmark is     *)
(* stored too, and the pair's one record shows this call's chapter.       *)
C9_Witness ==
    /\ last.op = "UpsertBookmark" /\ last.err = Nil
    /\ last.args.chapterID = <<2>>
    /\ Cardinality(DOMAIN bookmarks) = 2
    /\ Cardinality(BookmarksOf(last.args.userID, last.args.novelID)) = 1

(* The goroutines between RLock and RUnlock, and between Lock and Unlock. *)
Readers == {t \in Threads : pc[t] \in {"lcCheck", "lcLoop", "runlock"}}

Writers == {t \in Threads : pc[t] \notin {"idle", "return", "lcCheck", "lcLoop", "runlock"}}

(* No novel is half deleted: a novel that is gone left nothing behind,    *)
(* and the per-novel id lists name exactly the stored chapters and        *)
(* comments of the stored novels.                                         *)
CascadeConsistent ==
    /\ \A id \in 1..nextNovelID : id \notin DOMAIN novelsByID => NoTrace(id)
    /\ \A id \in DOMAIN chapterIDsByNovel :
          SeqToSet(chapterIDsByNovel[id]) =
             {c \in DOMAIN chaptersByID : chaptersByID[c].NovelID = id}
    /\ \A id \in DOMAIN commentIDsByNovel :
          SeqToSet(commentIDsByNovel[id]) =
             {c \in DOMAIN commentsByID : commentsByID[c].NovelID = id}

(* What a ListChapters that is about to return has read is the list of    *)
(* the store as it is.                                                    *)
ReadIsWhole(t) ==
    (pc[t] = "runlock" /\ local[t].err = Nil)
        => local[t].val \in ListChaptersResults(local[t].args.novelID)

(* C6: whatever the interleaving of DeleteNovel and the other mutations    *)
(* with reads, while a read is between RLock and RUnlock no mutation is   *)
(* under way, no novel is absent with a chapter, comment or bookmark of   *)
(* it still stored nor present with its lists and tables disagreeing,     *)
(* and the chapters ListChapters returns are those of one such state.     *)
C6_ReadsSeeWholeCascades ==
    \A t \in Readers : Writers = {} /\ CascadeConsistent /\ ReadIsWhole(t)

(* One goroutine has listed the chapters of a novel and the other has     *)
(* deleted that novel, and both are about to hand their results over.     *)
C6_Witness ==
    \E t1, t2 \in Threads :
        /\ pc[t1] = "return" /\ local[t1].op = "ListChapters"
        /\ local[t1].err = Nil /\ local[t1].val # <<>>
        /\ pc[t2] = "return" /\ local[t2].op = "DeleteNovel"
        /\ local[t2].err = Nil /\ local[t2].args.id = local[t1].args.novelID
        /\ NoTrace(local[t2].args.id)

MutualExclusion ==
    /\ Cardinality(Writers) <= 1
    /\ Writers # {} => Readers = {}

CreateOps == {"Register", "CreateNovel", "CreateChapter", "CreateComment"}

CreatedID(f) == IF f.op = "Register" THEN f.val.user.ID ELSE f.val.ID

Created(t) == pc[t] = "return" /\ local[t].op \in CreateOps /\ local[t].err = Nil

DistinctIDs ==
    \A t1, t2 \in Threads :
        (/\ t1 # t2 /\ Created(t1) /\ Created(t2)
         /\ local[t1].op = local[t2].op)
            => CreatedID(local[t1]) # CreatedID(local[t2])

(* A create adds one entity under an id no stored entity has. *)
CreateStep ==
    /\ \A t \in Threads :
          (pc[t] = "ccBuild" /\ pc'[t] = "ccIndex") =>
              /\ nextChapterID \notin DOMAIN chaptersByID
              /\ DOMAIN chaptersByID' = DOMAIN chaptersByID \cup {nextChapterID}
    /\ (last'.op = "CreateNovel" /\ last'.err = Nil /\ last.op = "none") =>
          /\ last'.val.ID \notin DOMAIN novelsByID
          /\ DOMAIN novelsByID' = DOMAIN novelsByID \cup {last'.val.ID}
    /\ (last'.op = "CreateComment" /\ last'.err = Nil /\ last.op = "none") =>
          /\ last'.val.ID \notin DOMAIN commentsByID
          /\ DOMAIN commentsByID' = DOMAIN commentsByID \cup {last'.val.ID}
    /\ (last'.op = "Register" /\ last'.err = Nil /\ last.op = "none") =>
          /\ last'.val.user.ID \notin DOMAIN usersByID
          /\ DOMAIN usersByID' = DOMAIN usersByID \cup {last'.val.user.ID}

(* C7: at any instant at most one mutation is between Lock and Unlock and *)
(* none is while a read is between RLock and RUnlock; every successful    *)
(* create stores one more entity under an id no entity had, and two       *)
(* goroutines that created entities of one kind hold distinct ids.        *)
C7_OneMutationAtATime ==
    []MutualExclusion /\ []DistinctIDs /\ [][CreateStep]_vars

(* Both goroutines have created a chapter, each is about to hand its own  *)
(* over, and both chapters are stored.                                    *)
C7_Witness ==
    /\ \A t \in Threads : Created(t) /\ local[t].op = "CreateChapter"
    /\ \A t \in Threads : local[t].val.ID \in DOMAIN chaptersByID
    /\ Cardinality({local[t].val.ID : t \in Threads}) = ConcThreads

RestartStep == last'.op = "Restart" => running' /\ State' = State

FreshIDStep ==
    /\ (last'.op = "CreateNovel" /\ last'.err = Nil)
          => last'.val.ID > nextNovelID /\ last'.val.ID \notin DOMAIN novelsByID
    /\ (last'.op = "Register" /\ last'.err = Nil)
          => last'.val.user.ID > nextUserID
    /\ (last'.op = "CreateChapter" /\ last'.err = Nil)
          => last'.val.ID > nextChapterID
    /\ (last'.op = "CreateComment" /\ last'.err = Nil)
          => last'.val.ID > nextCommentID

(* C10: a restart on the same snapshot path restores every table, every   *)
(* attribute of every entity (each user's password salt and hash          *)
(* included), every session and the four counters, and an entity created  *)
(* afterwards gets an id above every id used before.                      *)
C10_RestartRestores == [][RestartStep /\ FreshIDStep]_vars

(* The passwords a registration can succeed with. *)
RegistrationPasswords == Passwords \ {<<>>}

LoginStep ==
    (/\ last'.op = "Login"
     /\ normalize(last'.args.email) \in DOMAIN usersByEmail
     /\ last'.args.password \in RegistrationPasswords) =>
        /\ last'.err = Nil
        /\ \A t \in Tokens :
              last'.val.token = t =>
                 /\ UserByToken(t)'.err = Nil
                 /\ UserByToken(t)'.user.ID = usersByEmail[normalize(last'.args.email)]

(* C11: a registered user stays a usable account across restarts: Login   *)
(* with the user's email and the password given at registration succeeds  *)
(* and issues a token that resolves to that user.                         *)
C11_LoginAfterRestart == [][LoginStep]_vars

MutatingOps == {"Register", "Login", "CreateNovel", "UpdateNovel", "DeleteNovel",
                "CreateChapter", "UpdateChapter", "DeleteChapter",
                "CreateComment", "UpsertBookmark"}

Applied(l) ==
    CASE l.op = "Register" ->
           /\ normalize(l.args.username) \in DOMAIN usersByUsername
           /\ normalize(l.args.email) \in DOMAIN usersByEmail
           /\ usersByUsername[normalize(l.args.username)] = nextUserID
           /\ usersByEmail[normalize(l.args.email)] = nextUserID
           /\ nextUserID \in DOMAIN usersByID
           /\ usersByID[nextUserID].Username = TrimSpace(l.args.username)
           /\ \E t \in DOMAIN sessions : sessions[t] = nextUserID
      [] l.op = "CreateNovel" ->
           /\ nextNovelID \in DOMAIN novelsByID
           /\ novelsByID[nextNovelID].AuthorID = l.args.authorID
           /\ novelsByID[nextNovelID].Title = TrimSpace(l.args.title)
      [] l.op = "UpdateNovel" ->
           /\ l.args.id \in DOMAIN novelsByID
           /\ l.args.status # <<>> => novelsByID[l.args.id].Status = l.args.status[1]
      [] l.op = "DeleteNovel" -> NoTrace(l.args.id)
      [] l.op = "CreateChapter" ->
           /\ nextChapterID \in DOMAIN chaptersByID
           /\ chaptersByID[nextChapterID].NovelID = l.args.novelID
           /\ nextChapterID \in SeqToSet(Get(chapterIDsByNovel, l.args.novelID))
      [] l.op = "UpdateChapter" -> l.args.chapterID \in DOMAIN chaptersByID
      [] l.op = "DeleteChapter" ->
           /\ l.args.chapterID \notin DOMAIN chaptersByID
           /\ l.args.chapterID \notin SeqToSet(Get(chapterIDsByNovel, l.args.novelID))
      [] l.op = "CreateComment" ->
           /\ nextCommentID \in DOMAIN commentsByID
           /\ commentsByID[nextCommentID].NovelID = l.args.novelID
           /\ commentsByID[nextCommentID].UserID = l.args.userID
      [] l.op = "UpsertBookmark" ->
           /\ bookmarkKey(l.args.userID, l.args.novelID) \in DOMAIN bookmarks
           /\ bookmarks[bookmarkKey(l.args.userID, l.args.novelID)].ChapterID
                 = l.args.chapterID
      [] OTHER -> FALSE

(* The file holds nothing newer than the tables' last good write. *)
FailedWriteStep ==
    last'.err = ErrPersist =>
        /\ last'.val \in {<<>>, NoNovel, NoChapter, NoComment, NoBookmark}
        /\ disk' \in {disk, BrokenFile}
        /\ handleStoreErr(last'.err) = StatusBadRequest

(* C13: when the snapshot write fails the operation returns an error and  *)
(* no value while its effect on the tables stays: the tables show the     *)
(* mutation, and a failed Register leaves username and email claimed.     *)
C13_FailedWriteKeepsEffect ==
    [](last.err = ErrPersist => Applied(last)) /\ [][FailedWriteStep]_vars

(* A second Register of a name is refused as a conflict although the      *)
(* snapshot file names no user: the Register that claimed it had failed   *)
(* on its write.                                                          *)
C13_Witness ==
    /\ last.op = "Register" /\ last.err = ErrConflict
    /\ disk.kind # "malformed" /\ DOMAIN disk.doc.users_by_id = {}
    /\ normalize(last.args.username) \in DOMAIN usersByUsername

SnapshotStep == disk' = disk \/ disk' = File(Marshal(State'))

(* C14: at every instant, a failure or crash in the middle of a snapshot  *)
(* write included, the snapshot file holds one complete state: the one    *)
(* before the mutation or the one after it, never a truncated document.   *)
C14_SnapshotAlwaysWhole == [][SnapshotStep]_vars

Resolves(t) == UserByToken(t).err = Nil

TokensStay ==
    \A t \in Tokens :
        Resolves(t) =>
            /\ Resolves(t)'
            /\ UserByToken(t)'.user.ID = UserByToken(t).user.ID

(* C15: a token issued by a successful Register or Login for a user       *)
(* resolves to that user after any later operations, further logins       *)
(* included, and a token that is not in the session table is rejected.    *)
C15_TokensStayValid ==
    /\ [][TokensStay]_vars
    /\ [](last.op = "UserByToken" => last.args.token \in DOMAIN sessions)

IssueStep ==
    (last'.op \in {"Register", "Login"} /\ last'.err = Nil) =>
        /\ last'.val.token \notin DOMAIN sessions
        /\ \A t \in DOMAIN sessions :
              t \in DOMAIN sessions' /\ sessions'[t] = sessions[t]

(* C16: each successful Register or Login adds a token that was not in    *)
(* the session table, so issuing a token never changes the owner of an    *)
(* existing session.                                                      *)
C16_FreshTokens == [][IssueStep]_vars

ChapterMutations == {"UpdateChapter", "DeleteChapter"}

(* The failed call addressed a novel, or a chapter under it, that the     *)
(* store does not hold.                                                   *)
TargetMissing(l) ==
    /\ l.err \notin {Nil, ErrInvalid}
    /\ "novelID" \in DOMAIN l.args \/ "id" \in DOMAIN l.args
    /\ \/ TargetNovel(l) \notin DOMAIN novelsByID
       \/ l.op \in ChapterMutations /\ chapterMissing(l.args.novelID, l.args.chapterID)

(* C17: a call whose target does not exist is answered NotFound, before   *)
(* any test of the requester: UpdateChapter and DeleteChapter of a        *)
(* chapter that does not exist answer NotFound to a non-author too.       *)
C17_NotFoundFirst == TargetMissing(last) => NotFound(last)

(* C19: ListComments with a chapter filter answers a list only when the   *)
(* chapter exists under the novel; otherwise it fails with NotFound.      *)
C19_FilterChapterExists ==
    (last.op = "ListComments" /\ last.args.chapterID # <<>>
        /\ chapterMissing(last.args.novelID, last.args.chapterID[1])) =>
    NotFound(last)

(* C20: CreateComment and UpsertBookmark called with the identity zero    *)
(* fail, on a published novel too, so that every stored comment and       *)
(* bookmark carries the id of a user of the store.                        *)
C20_NoAnonymousContent ==
    /\ (last.op \in {"CreateComment", "UpsertBookmark"} /\ last.args.userID = 0) =>
          last.err # Nil
    /\ \A id \in DOMAIN commentsByID : commentsByID[id].UserID \in DOMAIN usersByID
    /\ \A k \in DOMAIN bookmarks : bookmarks[k].UserID \in DOMAIN usersByID

(* The chapter a stored comment names was created, and while it exists it *)
(* is a chapter of the comment's novel.                                   *)
CommentChapterOfNovel(c) ==
    c.ChapterID # <<>> =>
        /\ c.ChapterID[1] \in 1..nextChapterID
        /\ c.ChapterID[1] \in DOMAIN chaptersByID =>
              chaptersByID[c.ChapterID[1]].NovelID = c.NovelID

(* C18: a comment is created only with a chapter that exists under its    *)
(* novel, and in every state the chapter a stored comment names, while it *)
(* exists, belongs to the comment's novel, whose comments go with it.     *)
C18_CommentChapterOfNovel ==
    /\ \A id \in DOMAIN commentsByID :
          /\ commentsByID[id].NovelID \in DOMAIN novelsByID
          /\ CommentChapterOfNovel(commentsByID[id])
    /\ (last.op = "CreateComment" /\ last.err = Nil /\ last.args.chapterID # <<>>) =>
          ~chapterMissing(last.args.novelID, last.args.chapterID[1])

(* A stored comment names a chapter that DeleteChapter has removed. *)
C18_Witness ==
    \E id \in DOMAIN commentsByID :
        /\ commentsByID[id].ChapterID # <<>>
        /\ commentsByID[id].ChapterID[1] \notin DOMAIN chaptersByID
        /\ commentsByID[id].ChapterID[1] \in 1..nextChapterID
        /\ commentsByID[id].NovelID \in DOMAIN novelsByID

(* C18 as stated: the chapter of every stored comment exists and belongs  *)
(* to the comment's novel.                                                *)
C18_CommentChapterExists ==
    \A id \in DOMAIN commentsByID :
        commentsByID[id].ChapterID # <<>> =>
            /\ commentsByID[id].ChapterID[1] \in DOMAIN chaptersByID
            /\ chaptersByID[commentsByID[id].ChapterID[1]].NovelID =
                  commentsByID[id].NovelID

(* C21: MyBookmarks answers no bookmark of a novel that is a draft hidden *)
(* from the user: a reader's bookmark of a published novel is not         *)
(* returned after the author has set the novel back to draft.             *)
C21_NoBookmarkOfHiddenDraft ==
    last.op = "MyBookmarks" =>
        \A i \in 1..Len(last.val) :
            last.val[i].NovelID \in DOMAIN novelsByID =>
                ~hiddenFrom(novelsByID[last.val[i].NovelID], last.args.userID)

(* The snapshot of the store that a fresh process loads from snapshot d. *)
Resaved(d) == Marshal(loadLocked(File(d)))

(* C22: saving the tables, loading the snapshot into a fresh store and    *)
(* saving again gives the same snapshot, collection by collection and     *)
(* counter by counter.                                                    *)
C22_SnapshotRoundTrip == Resaved(Marshal(State)) = Marshal(State)

(* A store with a hashed user, a comment and a bookmark on a chapter,     *)
(* whose tables a load of its snapshot does not give back unchanged.      *)
C22_Witness ==
    /\ \E id \in DOMAIN usersByID : usersByID[id].PasswordHash # <<>>
    /\ \E id \in DOMAIN commentsByID : commentsByID[id].ChapterID # <<>>
    /\ \E k \in DOMAIN bookmarks : bookmarks[k].ChapterPos # <<>>
    /\ \E k \in DOMAIN bookmarks : bookmarks[k].ChapterID = <<>>
    /\ loadLocked(File(Marshal(State))) # State

(* The answer of a list call that did not fail. *)
Listed(op) == last.op = op /\ last.err = Nil

(* C23: the chapters of a ListChapters answer are in non-decreasing       *)
(* position, the comments of a ListComments answer in non-decreasing      *)
(* creation time, the novels of a ListNovels answer in non-increasing     *)
(* update time.                                                           *)
C23_ListsOrdered ==
    /\ Listed("ListChapters") =>
          \A i, j \in 1..Len(last.val) :
              i < j => last.val[i].Position <= last.val[j].Position
    /\ Listed("ListComments") =>
          \A i, j \in 1..Len(last.val) :
              i < j => last.val[i].CreatedAt <= last.val[j].CreatedAt
    /\ Listed("ListNovels") =>
          \A i, j \in 1..Len(last.val) :
              i < j => last.val[i].UpdatedAt >= last.val[j].UpdatedAt

(* ListChapters answers two chapters of distinct positions in the order   *)
(* opposite to the id list of the novel.                                  *)
C23_Witness ==
    /\ Listed("ListChapters")
    /\ Len(last.val) = 2
    /\ last.val[1].Position < last.val[2].Position
    /\ chapterIDsByNovel[last.args.novelID] = <<last.val[2].ID, last.val[1].ID>>

DeletesNovel(id) ==
    last'.op = "DeleteNovel" /\ last'.err = Nil /\ last'.args.id = id

DeleteNovelBookmarks ==
    \A id \in DOMAIN novelsByID :
        DeletesNovel(id) =>
            /\ DOMAIN bookmarks' \subseteq DOMAIN bookmarks
            /\ \A k \in DOMAIN bookmarks :
                  IF bookmarks[k].NovelID = id
                  THEN k \notin DOMAIN bookmarks'
                  ELSE k \in DOMAIN bookmarks' /\ bookmarks'[k] = bookmarks[k]

(* C24: DeleteNovel(N) deletes every bookmark of novel N, those that name *)
(* a chapter of N included, and leaves the bookmarks of other novels as   *)
(* they are.                                                              *)
C24_DeleteNovelDeletesBookmarks == [][DeleteNovelBookmarks]_vars

(* A novel with chapters was deleted and the bookmark of the other novel, *)
(* on one of its chapters, is still stored.                               *)
C24_Witness ==
    /\ last.op = "DeleteNovel" /\ last.err = Nil
    /\ \E c \in 1..nextChapterID : c \notin DOMAIN chaptersByID
    /\ \E k \in DOMAIN bookmarks :
          /\ bookmarks[k].NovelID # last.args.id
          /\ bookmarks[k].ChapterID # <<>>

DeleteNovelClears ==
    \A id \in DOMAIN novelsByID :
        DeletesNovel(id) =>
            \A k \in DOMAIN bookmarks :
                (bookmarks[k].NovelID = id /\ bookmarks[k].ChapterID # <<>>) =>
                    /\ k \in DOMAIN bookmarks'
                    /\ bookmarks'[k].ChapterID = <<>>

(* C24 as stated: after DeleteNovel(N) every bookmark that named a        *)
(* chapter of N is still stored, with its chapter reference cleared.      *)
C24_DeleteNovelClearsBookmarks == [][DeleteNovelClears]_vars

(* C25: chapters of equal position are answered by ListChapters in the    *)
(* order of their creation, which is the order of their ids.              *)
C25_StableChapters ==
    Listed("ListChapters") =>
        \A i, j \in 1..Len(last.val) :
            (i < j /\ last.val[i].Position = last.val[j].Position) =>
                last.val[i].ID < last.val[j].ID

UpdateChapterStep == last'.op = "UpdateChapter" => bookmarks' = bookmarks

UpsertSnapshotStep ==
    \A u \in 0..nextUserID, n \in DOMAIN novelsByID, c \in DOMAIN chaptersByID :
        (/\ last'.op = "UpsertBookmark" /\ last'.err = Nil
         /\ last'.args.userID = u /\ last'.args.novelID = n
         /\ last'.args.chapterID = <<c>>) =>
            /\ bookmarkKey(u, n) \in DOMAIN bookmarks'
            /\ bookmarks'[bookmarkKey(u, n)].ChapterPos = <<chaptersByID[c].Position>>
            /\ bookmarks'[bookmarkKey(u, n)].UpdatedAt = clock

(* C26: UpdateChapter leaves every bookmark as it is, position snapshot   *)
(* and timestamp included; the bookmark takes the chapter's position of   *)
(* the moment at the next UpsertBookmark of its user and novel.           *)
C26_PositionSnapshot == [][UpdateChapterStep /\ UpsertSnapshotStep]_vars

(* A chapter was moved while a bookmark on it keeps the old position. *)
C26_Witness ==
    /\ last.op = "UpdateChapter" /\ last.err = Nil /\ last.args.position > 0
    /\ \E k \in DOMAIN bookmarks :
          /\ bookmarks[k].ChapterID = <<last.args.chapterID>>
          /\ bookmarks[k].ChapterPos # <<chaptersByID[last.args.chapterID].Position>>
          /\ bookmarks[k].UpdatedAt < chaptersByID[last.args.chapterID].UpdatedAt

(* A text field that is set stays set. *)
Kept(old, new) == old # <<>> => new # <<>>

NoClearStep ==
    /\ \A id \in DOMAIN novelsByID :
          id \in DOMAIN novelsByID' =>
              /\ Kept(novelsByID[id].Title, novelsByID'[id].Title)
              /\ Kept(novelsByID[id].Description, novelsByID'[id].Description)
              /\ Kept(novelsByID[id].Genre, novelsByID'[id].Genre)
    /\ \A c \in DOMAIN chaptersByID :
          c \in DOMAIN chaptersByID' =>
              /\ Kept(chaptersByID[c].Title, chaptersByID'[c].Title)
              /\ Kept(chaptersByID[c].Content, chaptersByID'[c].Content)

EmptyArgStep ==
    /\ \A id \in DOMAIN novelsByID :
          (last'.op = "UpdateNovel" /\ last'.args.id = id) =>
              /\ last'.args.title = <<>> => novelsByID'[id].Title = novelsByID[id].Title
              /\ last'.args.description = <<>> =>
                    novelsByID'[id].Description = novelsByID[id].Description
              /\ last'.args.genre = <<>> => novelsByID'[id].Genre = novelsByID[id].Genre
    /\ \A c \in DOMAIN chaptersByID :
          (last'.op = "UpdateChapter" /\ last'.args.chapterID = c) =>
              /\ last'.args.title = <<>> => chaptersByID'[c].Title = chaptersByID[c].Title
              /\ last'.args.content = <<>> =>
                    chaptersByID'[c].Content = chaptersByID[c].Content

(* C27: no update clears a field: a title, description or genre of a      *)
(* novel and a title or content of a chapter that is not empty is not     *)
(* empty after any call, and an empty field argument leaves the stored    *)
(* field as it is.                                                        *)
C27_NoUpdateClears == [][NoClearStep /\ EmptyArgStep]_vars

(* The novels that match the filters of the ListNovels call l. *)
Matching(l) ==
    ListNovelsKept(l.args.query, l.args.authorID, l.args.includeDrafts,
                   l.args.requesterID)

(* The sorted lists of the novels in S. *)
SortedNovels(S) ==
    {q \in {[i \in 1..Len(o) |-> novelsByID[o[i]]] : o \in Orders(S)} :
        \A i, j \in 1..Len(q) : i < j => q[i].UpdatedAt >= q[j].UpdatedAt}

(* The length of the page at offset of n novels, under limit. *)
PageLen(n, limit, offset) ==
    IF limit > 0 /\ limit < n - offset THEN limit ELSE n - offset

(* C28: for an offset that is not negative, ListNovels answers without an *)
(* error: the empty list when the offset is at least the number of        *)
(* matching novels, and otherwise the sorted matching list without its    *)
(* first offset elements, cut to limit elements when limit is positive.   *)
C28_Pagination ==
    (last.op = "ListNovels" /\ last.args.offset >= 0) =>
        LET n == Cardinality(Matching(last))
            offset == last.args.offset
        IN  /\ last.err = Nil
            /\ offset >= n => last.val = <<>>
            /\ offset < n =>
                  \E full \in SortedNovels(Matching(last)) :
                      last.val = SubSeq(full, offset + 1,
                                        offset + PageLen(n, last.args.limit, offset))

(* ListNovels was called with the offset equal to the number of matching  *)
(* novels, which is not zero, and answered the empty list.                *)
C28_Witness ==
    /\ last.op = "ListNovels" /\ last.err = Nil
    /\ last.args.offset = Cardinality(Matching(last))
    /\ last.args.offset > 0
    /\ last.val = <<>>

CounterOf(op) ==
    CASE op = "Register" -> nextUserID
      [] op = "CreateNovel" -> nextNovelID
      [] op = "CreateChapter" -> nextChapterID
      [] op = "CreateComment" -> nextCommentID

(* Every stored id was assigned: it is positive and at most its counter. *)
StoredBelowCounters ==
    /\ DOMAIN usersByID \subseteq 1..nextUserID
    /\ DOMAIN novelsByID \subseteq 1..nextNovelID
    /\ DOMAIN chaptersByID \subseteq 1..nextChapterID
    /\ DOMAIN commentsByID \subseteq 1..nextCommentID

(* The counters of the snapshot are not ahead of those of the process. *)
SnapshotBelowCounters ==
    (running /\ disk.kind = "document") =>
        /\ disk.doc.next_user_id <= nextUserID
        /\ disk.doc.next_novel_id <= nextNovelID
        /\ disk.doc.next_chapter_id <= nextChapterID
        /\ disk.doc.next_comment_id <= nextCommentID

CountersGrow == \A op \in CreateOps : CounterOf(op)' >= CounterOf(op)

AssignsNext ==
    \A op \in CreateOps :
        (last'.op = op /\ last'.err = Nil) =>
            /\ CreatedID(last') = CounterOf(op) + 1
            /\ CounterOf(op)' = CounterOf(op) + 1

RestartCounters ==
    (last'.op = "Restart" /\ running') =>
        /\ nextUserID' = disk.doc.next_user_id
        /\ nextNovelID' = disk.doc.next_novel_id
        /\ nextChapterID' = disk.doc.next_chapter_id
        /\ nextCommentID' = disk.doc.next_comment_id

(* C29: while the process runs no counter decreases and a create assigns  *)
(* its counter plus one, so ids increase in creation order and are not    *)
(* assigned again after deletions; a restart sets the counters to those   *)
(* of the snapshot, which are never ahead of the process, so the id of an *)
(* entity whose creation was written is not assigned again.               *)
C29_IdsIncrease ==
    /\ []StoredBelowCounters
    /\ []SnapshotBelowCounters
    /\ [][(last'.op # "Restart" => CountersGrow) /\ AssignsNext /\ RestartCounters]_vars

(* After a restart, of which the user without password hash is the trace, *)
(* and the deletion of chapter 1, a created chapter received the id 2.    *)
C29_Witness ==
    /\ last.op = "CreateChapter" /\ last.err = Nil /\ last.val.ID = 2
    /\ 1 \notin DOMAIN chaptersByID
    /\ \E id \in DOMAIN usersByID : usersByID[id].PasswordHash = <<>>

(* C29 as stated: no counter ever decreases, so that each counter is at   *)
(* least every id of its kind that was ever assigned.                     *)
C29_CountersNeverDecrease == [][running' => CountersGrow]_vars

(* ids lists each element of S once and nothing else. *)
ListsExactly(ids, S) ==
    /\ SeqToSet(ids) = S
    /\ \A i, j \in 1..Len(ids) : i # j => ids[i] # ids[j]

ChaptersIntact ==
    /\ \A c \in DOMAIN chaptersByID :
          chaptersByID[c].ID = c /\ chaptersByID[c].NovelID \in DOMAIN novelsByID
    /\ \A n \in DOMAIN novelsByID \cup DOMAIN chapterIDsByNovel :
          ListsExactly(Get(chapterIDsByNovel, n),
                       {c \in DOMAIN chaptersByID : chaptersByID[c].NovelID = n})

CommentsIntact ==
    /\ \A c \in DOMAIN commentsByID :
          commentsByID[c].ID = c /\ commentsByID[c].NovelID \in DOMAIN novelsByID
    /\ \A n \in DOMAIN novelsByID \cup DOMAIN commentIDsByNovel :
          ListsExactly(Get(commentIDsByNovel, n),
                       {c \in DOMAIN commentsByID : commentsByID[c].NovelID = n})

BookmarksIntact ==
    \A k \in DOMAIN bookmarks :
        LET b == bookmarks[k] IN
        /\ b.NovelID \in DOMAIN novelsByID
        /\ b.ChapterID # <<>> <=> b.ChapterPos # <<>>
        /\ b.ChapterID # <<>> =>
              /\ b.ChapterID[1] \in DOMAIN chaptersByID
              /\ chaptersByID[b.ChapterID[1]].NovelID = b.NovelID

(* C30: the novel of every chapter, comment and bookmark exists; the id   *)
(* list of a novel lists each of its stored chapters (comments) once and  *)
(* nothing else; a bookmark has a chapter exactly when it has a position, *)
(* and that chapter exists and belongs to the bookmark's novel.           *)
C30_ReferentialIntegrity == ChaptersIntact /\ CommentsIntact /\ BookmarksIntact

(* A chapter was deleted from a novel that keeps another chapter, a       *)
(* comment and a bookmark.                                                *)
C30_Witness ==
    /\ last.op = "DeleteChapter" /\ last.err = Nil
    /\ Get(chapterIDsByNovel, last.args.novelID) # <<>>
    /\ Get(commentIDsByNovel, last.args.novelID) # <<>>
    /\ \E k \in DOMAIN bookmarks : bookmarks[k].NovelID = last.args.novelID

----------------------------------------------------------------------------
(* Refused calls *)

(* The errors of a refused call: invalid input, a claimed username or     *)
(* email, a wrong credential or token, a requester who is not allowed,    *)
(* and a target that does not exist.                                      *)
RefusalErrors == {ErrInvalid, ErrConflict, ErrUnauthorized, ErrNotFound}

RefusedStep == last'.op # "none" /\ last'.err \in RefusalErrors

(* C31: a call that answers a validation, conflict, authentication,       *)
(* forbidden or not-found error leaves every table, the sessions, the id  *)
(* counters and the snapshot file as they were before the call.           *)
C31_RefusedCallChangesNothing ==
    [][RefusedStep => UNCHANGED <<tables, disk>>]_vars

(* UpdateNovel by the owner was refused for its status while it carried a *)
(* title, a description and a genre other than the stored ones.           *)
C31_Witness ==
    /\ last.op = "UpdateNovel" /\ last.err = ErrInvalid
    /\ last.args.title # <<>> /\ last.args.description # <<>>
    /\ last.args.genre # <<>>
    /\ last.args.id \in DOMAIN novelsByID
    /\ novelsByID[last.args.id].Title # TrimSpace(last.args.title)
    /\ novelsByID[last.args.id].Description # TrimSpace(last.args.description)
    /\ novelsByID[last.args.id].Genre # TrimSpace(last.args.genre)

----------------------------------------------------------------------------
(* Offsets and limits below zero *)

(* C32: ListNovels returns a list for every offset and limit, negative    *)
(* ones included: it never aborts, and a negative offset gives what the   *)
(* offset zero gives.                                                     *)
C32_ListNovelsAlwaysReturns ==
    last.op = "ListNovels" =>
        /\ last.err = Nil
        /\ last.args.offset < 0 =>
              Len(last.val) = PageLen(Cardinality(Matching(last)),
                                      last.args.limit, 0)

====
